---- MODULE Spec2Model ----
(***************************************************************************)
(* Model of the WebRTX analytic-primitive packing and rebuild logic:       *)
(*   - fallback path:  src/src/fallback/pipeline.ts                         *)
(*   - ray-tracing path: src/src/fallback/scene_descriptor.ts               *)
(*     (buildAnalyticPrimitivesTLAS), src/src/scene.ts,                     *)
(*     src/src/analytic_shaders.ts                                          *)
(*                                                                         *)
(* Numbers are fixed-point integers: the JavaScript number x is held as    *)
(* the integer x * FX.  Arrays are 1-based sequences; the element the code *)
(* addresses as a[k] is a[k + 1] here.                                      *)
(***************************************************************************)
EXTENDS Integers, Sequences, FiniteSets, TLC

\* ------------------------------------------------------------------------
\* Fixed-point arithmetic
\* ------------------------------------------------------------------------
FX == 10000

Abs(a) == IF a < 0 THEN -a ELSE a
Max2(a, b) == IF a > b THEN a ELSE b
Min2(a, b) == IF a < b THEN a ELSE b
Sgn(a) == IF a < 0 THEN -1 ELSE 1

MinOf(S) == CHOOSE x \in S : \A y \in S : x <= y
MaxOf(S) == CHOOSE x \in S : \A y \in S : x >= y

\* a * b on numbers held at scale FX (rounded toward zero)
FMul(a, b) == Sgn(a) * Sgn(b) * ((Abs(a) * Abs(b)) \div FX)
\* a / b on numbers held at scale FX (b # 0)
FDiv(a, b) == Sgn(a) * Sgn(b) * ((Abs(a) * FX) \div Abs(b))

\* the largest k in lo..hi with (k * step)^2 <= n
SqrtDigit(n, lo, hi, step) ==
  CHOOSE k \in lo..hi :
    /\ (k * step) * (k * step) <= n
    /\ (k = hi \/ ((k + 1) * step) * ((k + 1) * step) > n)

\* floor(sqrt(n)) for 0 <= n < 2^31, found in two digits of base 216
SqrtFrom(n, coarse) == SqrtDigit(n, coarse * 216, Min2(coarse * 216 + 215, 46340), 1)
ISqrt(n) == SqrtFrom(n, SqrtDigit(n, 0, 214, 216))

\* ------------------------------------------------------------------------
\* Vec3 helpers (pipeline.ts 601-655)
\* ------------------------------------------------------------------------
Vec(x, y, z) == <<x, y, z>>
ZeroVec == <<0, 0, 0>>

\* Math.hypot on a Vec3 held at scale FX
hypot(v) == ISqrt(v[1] * v[1] + v[2] * v[2] + v[3] * v[3])

\* a length below 1e-5 is below one unit of the fixed-point grid
normalizeVec3(v) ==
  LET len == hypot(v)
  IN IF len < 1 THEN ZeroVec
     ELSE <<FDiv(v[1], len), FDiv(v[2], len), FDiv(v[3], len)>>

crossVec3(a, b) ==
  << FMul(a[2], b[3]) - FMul(a[3], b[2]),
     FMul(a[3], b[1]) - FMul(a[1], b[3]),
     FMul(a[1], b[2]) - FMul(a[2], b[1]) >>

subtractVec3(a, b) == <<a[1] - b[1], a[2] - b[2], a[3] - b[3]>>
dotVec3(a, b) == FMul(a[1], b[1]) + FMul(a[2], b[2]) + FMul(a[3], b[3])
addVec3(a, b) == <<a[1] + b[1], a[2] + b[2], a[3] + b[3]>>
scaleVec3(v, s) == <<FMul(v[1], s), FMul(v[2], s), FMul(v[3], s)>>
absVec3(v) == <<Abs(v[1]), Abs(v[2]), Abs(v[3])>>

orthonormalizePair(xdirIn, ydirIn) ==
  LET xdir == normalizeVec3(xdirIn)
      ydir == normalizeVec3(subtractVec3(ydirIn, scaleVec3(xdir, dotVec3(ydirIn, xdir))))
  IN <<xdir, ydir>>

\* ------------------------------------------------------------------------
\* Fallback pipeline constants (pipeline.ts 106-126)
\* ------------------------------------------------------------------------
BVH_NODE_BYTES == 48
SPHERE_FLOATS == 4
ANALYTIC_FLOATS == 12
BEZIER_FLOATS == 72
BEZIER_MAX_DEPTH_DEFAULT == 10
BEZIER_PIXEL_EPSILON_DEFAULT == 3
PRIMITIVE_REF_UINTS == 4
PRIM_TYPE_SPHERE == 0
PRIM_TYPE_CYLINDER == 1
PRIM_TYPE_CIRCLE == 2
PRIM_TYPE_ELLIPSE == 3
PRIM_TYPE_CONE == 4
PRIM_TYPE_LINE == 5
PRIM_TYPE_TORUS == 6
PRIM_TYPE_PLANE == 7
PRIM_TYPE_BEZIER_PATCH == 8
\* Float32Array.BYTES_PER_ELEMENT and Uint32Array.BYTES_PER_ELEMENT
BYTES_PER_ELEMENT == 4

VARIABLES
  storageBufferLimit,  \* device.limits.maxStorageBufferBindingSize as resolved at pipeline.ts 527
  prims,               \* the ScenePrimitiveState handed to buildPrimitiveAcceleration
  pc,                  \* position of the build: "idle", "bvh", "done", "threw"
  acc,                 \* the PrimitiveAccelerationData under construction / returned
  webRtxBlas           \* what buildAabbBlasNodes delivered to the build

packVars == <<storageBufferLimit, prims, pc, acc, webRtxBlas>>

\* the state of one fallback pipeline handle (pipeline.ts 559-595) and of the
\* GPU objects it owns
VARIABLES
  currentScenePrimitives,      \* the scene state the setters replace
  pending,                     \* updateAllPrimitives calls suspended at their await, oldest first
  calls,                       \* setter calls made so far
  primitiveCountValue,
  primitiveIndexCountValue,
  primitiveBvhNodeCountValue,
  currentPrimitiveCounts,
  storages,                    \* sphereStorage .. primitiveBvhStorage: [buffer, size]
  computeBindGroup,            \* NoBindGroup or the buffer bound for each storage
  cameraUniformBuffer,         \* the counts flushCameraUniform last wrote
  gpuBuffers,                  \* contents of every buffer createBuffer returned, by handle
  destroyed,                   \* handles on which destroy() has been called
  inflight,                    \* dispatches submitted and not yet finished, oldest first
  applied                      \* the accel of the latest updateAllPrimitives that ran to its end

hostVars == <<primitiveCountValue, primitiveIndexCountValue, primitiveBvhNodeCountValue,
              currentPrimitiveCounts, storages, computeBindGroup, cameraUniformBuffer,
              gpuBuffers, destroyed>>

fbVars == <<currentScenePrimitives, pending, calls, hostVars, inflight, applied>>

\* the state of one ray-tracing scene handle (scene.ts 797-1072)
VARIABLES
  overrides,      \* globalThis.__webrtxOverrides as buildAnalyticPrimitivesTLAS reads it
  curr,           \* the scene state the setters assign (version counts the assignments)
  currObject,     \* which object curr refers to
  rebuilds,       \* rebuildTLAS calls suspended at an await, oldest first
  rebuildCount,   \* rebuildTLAS calls made so far
  tlas,           \* the acceleration container
  sceneMetaBuf,   \* the SceneMeta uniform buffer
  sphereArray,    \* sphereArrayBuf, its capacity and the contents of every buffer it has named
  pipeline,       \* the ray-tracing pipeline
  userBG,         \* the bind group of the tracing pass
  frame           \* what the latest traceRays used

rtVars == <<overrides, curr, currObject, rebuilds, rebuildCount, tlas, sceneMetaBuf,
            sphereArray, pipeline, userBG, frame>>

\* One intersectBezierPatch call of the intersection shader
\* (analytic_shaders.ts 288-421)
VARIABLES
  args,           \* the arguments: rayOrigin, rayTMin, rayDir, rayTMax, patch, pixelWorldSlope
  at,             \* where the call stands: "entry", "loop", "refine", "refined", "returned"
  queue,          \* queue[0 .. size-1], the live slots
  node,           \* the node the current iteration popped
  bestIdx,        \* the slot the current iteration popped it from
  bestT,
  bestUV,
  hasHit,
  newton,         \* the locals of the running newtonRefine call
  hit             \* what the call returned: the flag, hitT and hitUV

patchVars == <<args, at, queue, node, bestIdx, bestT, bestUV, hasHit, newton, hit>>

\* --- one invocation of the intersection shader (analytic_shaders.ts 423-456)
VARIABLES
  geometry,       \* the primitive selected by gl_GeometryIndexEXT, with its parameters
  worldRay,       \* gl_WorldRayOriginEXT, gl_WorldRayDirectionEXT and cam.c3.z (nearT)
  shaderAt,       \* position of the invocation in main()
  closest,        \* the cylinder branch's bestT / bestKind
  reported        \* the reportIntersectionEXT call made, if any

kernelVars == <<geometry, worldRay, shaderAt, closest, reported>>

NoReport == [hit |-> FALSE, t |-> 0]

\* the shader's variables while no invocation is modelled
ShaderAbsent ==
  /\ geometry = [kind |-> "none"]
  /\ worldRay = [ro |-> <<0, 0, 0>>, rd |-> <<0, 0, 0>>, nearT |-> 0]
  /\ shaderAt = "absent"
  /\ closest = [bestT |-> 0, bestKind |-> -1]
  /\ reported = NoReport

\* --- one call of bezier_patch.ts convertHermitePatchToBezier
VARIABLES
  hermite,        \* the BezierPatchInstance passed in
  conversion      \* the BezierPatchConversion returned, once the call has returned

convVars == <<hermite, conversion>>

NoConversion == [returned |-> FALSE]

\* the converter's variables while no call is modelled
ConverterAbsent ==
  /\ hermite = << >>
  /\ conversion = NoConversion

\* --- repeated packing of one unchanged scene on either path
VARIABLES
  packedParams,   \* the AnalyticPrimitiveParams handed to buildAnalyticPrimitivesTLAS
  packings        \* what each packing so far returned, oldest first

repackVars == <<packedParams, packings>>

\* the variables while no repeated packing is modelled
RepackAbsent ==
  /\ packedParams = [version |-> 0]
  /\ packings = << >>

\* --- the shared-scene handle over both renderers (scene.ts 1583-1745)
VARIABLES
  current,        \* the renderer the shared handle forwards to
  held,           \* the scene each renderer stores: [fallback, raytracing]
  fallbackCamera, \* pipeline.ts camera state and the pose last flushed to the uniform
  cameraBuf,      \* scene.ts currentFov / currentNear / currentFar and the cameraBuf contents
  requested,      \* the pose most recently passed to updateCamera, per renderer
  stopped,        \* pipeline.ts `stopped`
  rafId,          \* scene.ts rafId: TRUE while an animation frame is requested
  gpuWork         \* the queue.submit calls made so far, per renderer

handleVars == <<current, held, fallbackCamera, cameraBuf, requested, stopped, rafId, gpuWork>>

\* the handle's variables while no shared scene is running
HandleAbsent ==
  /\ current = "none"
  /\ held = [fallback |-> 0, raytracing |-> 0]
  /\ fallbackCamera = [fovY |-> 0]
  /\ cameraBuf = [fov |-> 0]
  /\ requested = [fallback |-> << >>, raytracing |-> << >>]
  /\ stopped = FALSE
  /\ rafId = FALSE
  /\ gpuWork = [fallback |-> << >>, raytracing |-> << >>]

\* ------------------------------------------------------------------------
\* Count clamping and truncation (pipeline.ts 834-849, 965-1069)
\* ------------------------------------------------------------------------
Kinds == <<"sphere", "cylinder", "circle", "ellipse", "cone", "line", "torus", "plane", "bezier">>

ZeroCounts ==
  [sphere |-> 0, cylinder |-> 0, circle |-> 0, ellipse |-> 0, cone |-> 0,
   line |-> 0, torus |-> 0, plane |-> 0, bezier |-> 0]

clampCountForFloatStorage(requestedCount, floatsPerPrimitive) ==
  LET request == Max2(0, requestedCount)
      maxCount == storageBufferLimit \div (floatsPerPrimitive * BYTES_PER_ELEMENT)
  IN IF request <= 0 THEN 0
     ELSE IF maxCount <= 0 THEN 0
     ELSE IF request > maxCount THEN maxCount
     ELSE request

\* for (const key of order) { ... counts[key] -= reduceAmount; excess -= reduceAmount }
RECURSIVE ReduceCounts(_, _, _)
ReduceCounts(counts, order, excess) ==
  IF order = << >> \/ excess <= 0 THEN counts
  ELSE LET key == Head(order)
           available == counts[key]
           reduceAmount == Min2(available, excess)
       IN IF available <= 0 THEN ReduceCounts(counts, Tail(order), excess)
          ELSE ReduceCounts([counts EXCEPT ![key] = @ - reduceAmount], Tail(order),
                            excess - reduceAmount)

analyticReduceOrder == <<"plane", "torus", "line", "cone", "ellipse", "circle", "cylinder">>
reduceOrder ==
  <<"bezier", "plane", "torus", "line", "cone", "ellipse", "circle", "cylinder", "sphere">>

AnalyticSum(c) == c.cylinder + c.circle + c.ellipse + c.cone + c.line + c.torus + c.plane

\* counts after the per-kind clamp (966-976)
ClampedCounts(p) ==
  [sphere   |-> clampCountForFloatStorage(Len(p.spheres), SPHERE_FLOATS),
   cylinder |-> clampCountForFloatStorage(Len(p.cylinders), ANALYTIC_FLOATS),
   circle   |-> clampCountForFloatStorage(Len(p.circles), ANALYTIC_FLOATS),
   ellipse  |-> clampCountForFloatStorage(Len(p.ellipses), ANALYTIC_FLOATS),
   cone     |-> clampCountForFloatStorage(Len(p.cones), ANALYTIC_FLOATS),
   line     |-> clampCountForFloatStorage(Len(p.lines), ANALYTIC_FLOATS),
   torus    |-> clampCountForFloatStorage(Len(p.tori), ANALYTIC_FLOATS),
   plane    |-> clampCountForFloatStorage(Len(p.planes), ANALYTIC_FLOATS),
   bezier   |-> clampCountForFloatStorage(Len(p.bezierPatches), BEZIER_FLOATS)]

\* counts after the shared analytic buffer limit (978-1009)
AnalyticLimitedCounts(c) ==
  LET maxAnalyticEntries == storageBufferLimit \div (ANALYTIC_FLOATS * BYTES_PER_ELEMENT)
      analyticCount == AnalyticSum(c)
  IN IF analyticCount > maxAnalyticEntries
     THEN IF maxAnalyticEntries <= 0
          THEN [c EXCEPT !.cylinder = 0, !.circle = 0, !.ellipse = 0, !.cone = 0,
                         !.line = 0, !.torus = 0, !.plane = 0]
          ELSE ReduceCounts(c, analyticReduceOrder, analyticCount - maxAnalyticEntries)
     ELSE c

\* a reference limit that shrinks with every packing already made
RefsLeftAfterPackings ==
  (storageBufferLimit \div (Len(packings) + 1)) \div (PRIMITIVE_REF_UINTS * BYTES_PER_ELEMENT)

maxPrimitiveRefs == storageBufferLimit \div (PRIMITIVE_REF_UINTS * BYTES_PER_ELEMENT)

\* the sum recomputed at 1050-1058 after the reduction over reduceOrder
ReducedPrimitiveCount(c) ==
  c.sphere + c.cylinder + c.circle + c.ellipse + c.cone + c.line + c.torus + c.plane

\* counts and primitiveCount after the primitive-ref limit (1011-1060)
RefLimited(c) ==
  LET primitiveCount == AnalyticSum(c) + c.sphere + c.bezier
  IN IF primitiveCount > maxPrimitiveRefs
     THEN IF maxPrimitiveRefs <= 0
          THEN [counts |-> [c EXCEPT !.sphere = 0, !.cylinder = 0, !.circle = 0,
                                     !.ellipse = 0, !.cone = 0, !.line = 0,
                                     !.torus = 0, !.plane = 0],
                primitiveCount |-> 0]
          ELSE LET r == ReduceCounts(c, reduceOrder, primitiveCount - maxPrimitiveRefs)
               IN [counts |-> r, primitiveCount |-> ReducedPrimitiveCount(r)]
     ELSE [counts |-> c, primitiveCount |-> primitiveCount]

\* the last n instances kept instead of the first n
SliceLast(s, n) == SubSeq(s, Len(s) - Min2(n, Len(s)) + 1, Len(s))

\* prims.<kind>.slice(0, counts.<kind>) (1061-1069)
Slice(s, n) == SubSeq(s, 1, Min2(n, Len(s)))

\* ------------------------------------------------------------------------
\* Per-instance packing (pipeline.ts 1110-1412).  Each operator returns the
\* parameter record written for the instance and the AABB handed to
\* pushPrimitive.
\* ------------------------------------------------------------------------
RECURSIVE FlattenUpTo(_, _)
FlattenUpTo(ss, n) == IF n = 0 THEN << >> ELSE FlattenUpTo(ss, n - 1) \o ss[n]

Flatten(ss) == FlattenUpTo(ss, Len(ss))

Vmin(a, b) == <<Min2(a[1], b[1]), Min2(a[2], b[2]), Min2(a[3], b[3])>>
Vmax(a, b) == <<Max2(a[1], b[1]), Max2(a[2], b[2]), Max2(a[3], b[3])>>
Splat(x) == <<x, x, x>>

\* 1110-1122
PackSphere(sphere) ==
  LET center == sphere.center
      radius == Max2(0, sphere.radius)
  IN [data |-> <<center[1], center[2], center[3], radius>>,
      min |-> subtractVec3(center, Splat(radius)),
      max |-> addVec3(center, Splat(radius))]

\* analyticData[base + 0 .. base + 11]
AnalyticRecord(c, r, x, h, y, a) ==
  <<c[1], c[2], c[3], r, x[1], x[2], x[3], h, y[1], y[2], y[3], a>>

\* 1124-1154
PackCylinder(cylinder) ==
  LET center == cylinder.center
      radius == Max2(0, cylinder.radius)
      height == Max2(0, cylinder.height)
      pair == orthonormalizePair(cylinder.xdir, cylinder.ydir)
      xdir == pair[1]
      ydir == pair[2]
      axis == normalizeVec3(crossVec3(xdir, ydir))
      halfH == height \div 2
      ext == addVec3(addVec3(scaleVec3(absVec3(xdir), radius), scaleVec3(absVec3(ydir), radius)),
                     scaleVec3(absVec3(axis), halfH))
  IN [data |-> AnalyticRecord(center, radius, xdir, height, ydir, cylinder.angleDeg),
      min |-> subtractVec3(center, ext),
      max |-> addVec3(center, ext)]

\* 1156-1190
PackCircle(circle) ==
  LET center == circle.center
      radius == Max2(0, circle.radius)
      pair == orthonormalizePair(circle.xdir, circle.ydir)
      xdir == pair[1]
      ydir == pair[2]
      ext == scaleVec3(addVec3(absVec3(xdir), absVec3(ydir)), radius)
      normal == normalizeVec3(crossVec3(xdir, ydir))
      normalPadAmount == Max2(50, FMul(200, radius))    \* max(5e-3, 0.02 * radius)
      normalPad == scaleVec3(absVec3(normal), normalPadAmount)
  IN [data |-> AnalyticRecord(center, radius, xdir, 0, ydir, 0),
      min |-> subtractVec3(subtractVec3(center, ext), normalPad),
      max |-> addVec3(addVec3(center, ext), normalPad)]

\* 1192-1221
PackEllipse(ellipse) ==
  LET center == ellipse.center
      radiusX == Max2(0, ellipse.radiusX)
      radiusY == Max2(0, ellipse.radiusY)
      pair == orthonormalizePair(ellipse.xdir, ellipse.ydir)
      xdir == pair[1]
      ydir == pair[2]
      normal == normalizeVec3(crossVec3(xdir, ydir))
      thickness == Max2(50, Max2(radiusX, radiusY) \div 2)  \* max(5e-3, 0.5 * max(rx, ry))
      ext == addVec3(addVec3(scaleVec3(absVec3(xdir), radiusX), scaleVec3(absVec3(ydir), radiusY)),
                     scaleVec3(absVec3(normal), thickness))
  IN [data |-> AnalyticRecord(center, radiusX, xdir, radiusY, ydir, 0),
      min |-> subtractVec3(center, ext),
      max |-> addVec3(center, ext)]

\* 1223-1260
PackCone(cone) ==
  LET center == cone.center
      radius == Max2(0, cone.radius)
      height == Max2(0, cone.height)
      pair == orthonormalizePair(cone.xdir, cone.ydir)
      xdir == pair[1]
      ydir == pair[2]
      axis == normalizeVec3(crossVec3(xdir, ydir))
      halfH == height \div 2
      baseCenter == addVec3(center, scaleVec3(axis, halfH))
      apex == subtractVec3(center, scaleVec3(axis, halfH))
      baseExt == addVec3(scaleVec3(absVec3(xdir), radius), scaleVec3(absVec3(ydir), radius))
      pad == Max2(1, FMul(10, Max2(radius, height)))       \* max(1e-4, 1e-3 * max(r, h))
  IN [data |-> AnalyticRecord(center, radius, xdir, height, ydir, 0),
      min |-> subtractVec3(Vmin(subtractVec3(baseCenter, baseExt), apex), Splat(pad)),
      max |-> addVec3(Vmax(addVec3(baseCenter, baseExt), apex), Splat(pad))]

\* 1262-1295
PackLine(line) ==
  LET p0 == line.p0
      p1 == line.p1
      radius == Max2(0, line.radius)
      pad == Max2(5, FMul(200, radius))                    \* max(5e-4, 2e-2 * radius)
  IN [data |-> AnalyticRecord(p0, radius, p1, radius, ZeroVec, 0),
      min |-> subtractVec3(subtractVec3(Vmin(p0, p1), Splat(radius)), Splat(pad)),
      max |-> addVec3(addVec3(Vmax(p0, p1), Splat(radius)), Splat(pad))]

\* 1297-1328
PackTorus(torus) ==
  LET center == torus.center
      majorRadius == Max2(0, torus.majorRadius)
      minorRadius == Max2(0, torus.minorRadius)
      pair == orthonormalizePair(torus.xdir, torus.ydir)
      xdir == pair[1]
      ydir == pair[2]
      axis == normalizeVec3(crossVec3(xdir, ydir))
      ringRadius == majorRadius + minorRadius
      ext == addVec3(addVec3(scaleVec3(absVec3(xdir), ringRadius),
                             scaleVec3(absVec3(axis), ringRadius)),
                     Splat(minorRadius))
      \* max(1e-2 * max(majorRadius, 1.0), 2e-2 * minorRadius, 5e-3)
      pad == Max2(Max2(FMul(100, Max2(majorRadius, FX)), FMul(200, minorRadius)), 50)
  IN [data |-> AnalyticRecord(center, majorRadius, xdir, minorRadius, ydir, torus.angleDeg),
      min |-> subtractVec3(subtractVec3(center, ext), Splat(pad)),
      max |-> addVec3(addVec3(center, ext), Splat(pad))]

\* 1330-1373
PackPlane(plane) ==
  LET center == plane.center
      halfWidth == Max2(plane.halfWidth, 1)                \* max(halfWidth, 1e-4)
      halfHeight == Max2(plane.halfHeight, 1)
      pair == orthonormalizePair(plane.xdir, plane.ydir)
      xdirRaw == pair[1]
      ydirRaw == pair[2]
      normal == normalizeVec3(crossVec3(xdirRaw, ydirRaw))
      pad == Max2(50, FMul(200, Max2(halfWidth, halfHeight)))
      extent == addVec3(addVec3(scaleVec3(absVec3(xdirRaw), halfWidth),
                                scaleVec3(absVec3(ydirRaw), halfHeight)),
                        scaleVec3(absVec3(normal), pad))
  IN [data |-> AnalyticRecord(center, halfWidth, xdirRaw, halfHeight, ydirRaw, 0),
      min |-> subtractVec3(center, extent),
      max |-> addVec3(center, extent)]

\* ------------------------------------------------------------------------
\* Hermite -> Bezier conversion (pipeline.ts 657-747)
\* ------------------------------------------------------------------------
\* HERMITE_TO_BEZIER with every entry multiplied by 3
HERMITE_TO_BEZIER_X3 ==
  << <<3, 0, 0, 0>>, <<3, 0, 1, 0>>, <<0, 3, 0, -1>>, <<0, 3, 0, 0>> >>

\* x * (m / 3)
MulThirds(x, m) == Sgn(x * m) * (Abs(x * m) \div 3)

addScaledVec3(a, v, m) ==
  <<a[1] + MulThirds(v[1], m), a[2] + MulThirds(v[2], m), a[3] + MulThirds(v[3], m)>>

\* the k-loop of the matrix products: sum over k of vs[k] * ms[k]
HermiteSum(vs, ms) ==
  addScaledVec3(addScaledVec3(addScaledVec3(addScaledVec3(ZeroVec, vs[1], ms[1]),
                                            vs[2], ms[2]), vs[3], ms[3]), vs[4], ms[4])

multiplyHermiteMatrixLeft(matrix, data) ==
  [i \in 1..4 |-> [j \in 1..4 |->
     HermiteSum(<<data[1][j], data[2][j], data[3][j], data[4][j]>>, matrix[i])]]

multiplyHermiteMatrixRight(data, matrix) ==
  [i \in 1..4 |-> [j \in 1..4 |-> HermiteSum(data[i], matrix[j])]]

\* the running boundsMin / boundsMax over the 16 control points
BoundsOf(points) ==
  [min |-> [a \in 1..3 |-> MinOf({points[n][a] : n \in 1..16})],
   max |-> [a \in 1..3 |-> MaxOf({points[n][a] : n \in 1..16})]]

\* patch.maxDepth / patch.pixelEpsilon are << >> when undefined, <<v>> otherwise
ConvertedDepth(patch) ==
  IF patch.maxDepth = << >> THEN BEZIER_MAX_DEPTH_DEFAULT * FX
  ELSE Max2(FX, (patch.maxDepth[1] \div FX) * FX)

\* max(1e-5, epsilon): 1e-5 is held as the smallest positive grid value
ConvertedEpsilon(patch) ==
  IF patch.pixelEpsilon = << >> THEN BEZIER_PIXEL_EPSILON_DEFAULT * FX
  ELSE Max2(1, patch.pixelEpsilon[1])

\* the 4 x 4 Bezier control net in row-major order
BezierNet(patch) ==
  multiplyHermiteMatrixRight(
    multiplyHermiteMatrixLeft(HERMITE_TO_BEZIER_X3,
      << <<patch.p00, patch.p01, patch.dv00, patch.dv01>>,
         <<patch.p10, patch.p11, patch.dv10, patch.dv11>>,
         <<patch.du00, patch.du01, patch.duv00, patch.duv01>>,
         <<patch.du10, patch.du11, patch.duv10, patch.duv11>> >>),
    HERMITE_TO_BEZIER_X3)

ControlPoints(bezier) ==
  <<bezier[1][1], bezier[1][2], bezier[1][3], bezier[1][4],
    bezier[2][1], bezier[2][2], bezier[2][3], bezier[2][4],
    bezier[3][1], bezier[3][2], bezier[3][3], bezier[3][4],
    bezier[4][1], bezier[4][2], bezier[4][3], bezier[4][4]>>

Converted(patch, controlPoints, b) ==
  [controlPoints |-> controlPoints, boundsMin |-> b.min, boundsMax |-> b.max,
   maxDepth |-> ConvertedDepth(patch), pixelEpsilon |-> ConvertedEpsilon(patch)]

ConvertedFrom(patch, controlPoints) == Converted(patch, controlPoints, BoundsOf(controlPoints))

convertHermitePatchToBezier(patch) == ConvertedFrom(patch, ControlPoints(BezierNet(patch)))

\* bezierData[base .. base + 71] and the AABB of one converted patch
PackConverted(converted, pad) ==
  [data |-> [k \in 1..64 |-> IF (k - 1) % 4 = 3 THEN 0
                             ELSE converted.controlPoints[((k - 1) \div 4) + 1][((k - 1) % 4) + 1]]
            \o <<converted.boundsMin[1], converted.boundsMin[2],
                 converted.boundsMin[3], converted.maxDepth>>
            \o <<converted.boundsMax[1], converted.boundsMax[2],
                 converted.boundsMax[3], converted.pixelEpsilon>>,
   min |-> subtractVec3(converted.boundsMin, Splat(pad)),
   max |-> addVec3(converted.boundsMax, Splat(pad))]

\* max(1e-4, spanMax * 1e-3)
BezierPad(converted) ==
  Max2(1, FMul(MaxOf({converted.boundsMax[a] - converted.boundsMin[a] : a \in 1..3}), 10))

PackConvertedPatch(converted) == PackConverted(converted, BezierPad(converted))

\* 1375-1412
PackBezier(patch) == PackConvertedPatch(convertHermitePatchToBezier(patch))


\* ------------------------------------------------------------------------
\* Array assembly (pipeline.ts 1071-1108, 1414-1421)
\* ------------------------------------------------------------------------
Zeros(n) == [k \in 1..Max2(n, 0) |-> 0]

analyticStartCylinder(c) == 0
analyticStartCircle(c) == analyticStartCylinder(c) + c.cylinder
\* the ellipse records placed without stepping over the circle records
analyticStartEllipseNoCircle(c) == analyticStartCircle(c)
analyticStartEllipse(c) == analyticStartCircle(c) + c.circle
analyticStartCone(c) == analyticStartEllipse(c) + c.ellipse
analyticStartLine(c) == analyticStartCone(c) + c.cone
analyticStartTorus(c) == analyticStartLine(c) + c.line
analyticStartPlane(c) == analyticStartTorus(c) + c.torus
analyticTotal(c) == analyticStartPlane(c) + c.plane

\* the pack loop of one kind: the parameter stores into `data` and the
\* pushPrimitive calls, in instance order
KindLoop(list, Pack(_), type, floats, start) ==
  [i \in 1..Len(list) |->
     LET e == Pack(list[i])
     IN [base |-> (start + (i - 1)) * floats, data |-> e.data,
         type |-> type, indexInType |-> i - 1, min |-> e.min, max |-> e.max,
         analyticBaseOffset |-> start]]

\* the entries of `loop` whose parameter store covers element k (1-based)
StoresOver(loop, k) ==
  {n \in 1..Len(loop) : loop[n].base < k /\ k <= loop[n].base + Len(loop[n].data)}

\* arr after every parameter store of `loop`: an element holds what the last
\* store covering it wrote, an element no store covers keeps its value
ApplyStores(arr, loop) ==
  [k \in 1..Len(arr) |->
     IF StoresOver(loop, k) = {} THEN arr[k]
     ELSE loop[MaxOf(StoresOver(loop, k))].data[k - loop[MaxOf(StoresOver(loop, k))].base]]

\* 1091-1108: what one call stores at slot `cursor`, or nothing when refused
pushPrimitive(cursor, primitiveCount, e) ==
  IF cursor >= primitiveCount THEN [accepted |-> FALSE, aabb |-> << >>, ref |-> << >>]
  ELSE [accepted |-> TRUE,
        aabb |-> <<e.min[1], e.min[2], e.min[3], e.max[1], e.max[2], e.max[3]>>,
        ref |-> <<e.type, e.indexInType, e.analyticBaseOffset, 0>>]

\* cursor, aabbData and primitiveRefs after the calls of every iteration.
\* cursor advances by one per accepted call and a call is refused once
\* cursor >= primitiveCount, so the call of iteration n (1-based) finds
\* cursor = n - 1; slots no call stored to keep their initial zero.
PushAll(primitiveCount, loop) ==
  [cursor |-> Min2(Len(loop), Max2(primitiveCount, 0)),
   aabbData |-> [k \in 1..(Max2(primitiveCount, 0) * 6) |->
      IF (k - 1) \div 6 < Len(loop)
      THEN pushPrimitive((k - 1) \div 6, primitiveCount,
                         loop[((k - 1) \div 6) + 1]).aabb[((k - 1) % 6) + 1]
      ELSE 0],
   primitiveRefs |-> [k \in 1..(Max2(primitiveCount, 0) * PRIMITIVE_REF_UINTS) |->
      IF (k - 1) \div PRIMITIVE_REF_UINTS < Len(loop)
      THEN pushPrimitive((k - 1) \div PRIMITIVE_REF_UINTS, primitiveCount,
                         loop[((k - 1) \div PRIMITIVE_REF_UINTS) + 1]).ref[((k - 1) % PRIMITIVE_REF_UINTS) + 1]
      ELSE 0]]

TypeOf ==
  [sphere |-> PRIM_TYPE_SPHERE, cylinder |-> PRIM_TYPE_CYLINDER, circle |-> PRIM_TYPE_CIRCLE,
   ellipse |-> PRIM_TYPE_ELLIPSE, cone |-> PRIM_TYPE_CONE, line |-> PRIM_TYPE_LINE,
   torus |-> PRIM_TYPE_TORUS, plane |-> PRIM_TYPE_PLANE, bezier |-> PRIM_TYPE_BEZIER_PATCH]

\* the type validatePrimitiveRefTypes expects at each slot, in slot order
ExpectedTypes(counts, kinds) ==
  Flatten([n \in 1..Len(kinds) |-> [i \in 1..counts[kinds[n]] |-> TypeOf[kinds[n]]]])

\* TRUE when validatePrimitiveRefTypes returns, FALSE when it throws (292-318)
validatePrimitiveRefTypes(refs, counts) ==
  LET expected == ExpectedTypes(counts, Kinds)
  IN /\ \A slot \in 0..(Len(expected) - 1) :
          /\ slot * PRIMITIVE_REF_UINTS < Len(refs)
          /\ refs[slot * PRIMITIVE_REF_UINTS + 1] = expected[slot + 1]
     /\ Len(expected) * PRIMITIVE_REF_UINTS <= Len(refs)

\* the seven analytic pack loops in source order (1124-1373)
AnalyticLoops(p, counts) ==
     KindLoop(Slice(p.cylinders, counts.cylinder), PackCylinder,
              PRIM_TYPE_CYLINDER, ANALYTIC_FLOATS, analyticStartCylinder(counts))
  \o KindLoop(Slice(p.circles, counts.circle), PackCircle,
              PRIM_TYPE_CIRCLE, ANALYTIC_FLOATS, analyticStartCircle(counts))
  \o KindLoop(Slice(p.ellipses, counts.ellipse), PackEllipse,
              PRIM_TYPE_ELLIPSE, ANALYTIC_FLOATS, analyticStartEllipse(counts))
  \o KindLoop(Slice(p.cones, counts.cone), PackCone,
              PRIM_TYPE_CONE, ANALYTIC_FLOATS, analyticStartCone(counts))
  \o KindLoop(Slice(p.lines, counts.line), PackLine,
              PRIM_TYPE_LINE, ANALYTIC_FLOATS, analyticStartLine(counts))
  \o KindLoop(Slice(p.tori, counts.torus), PackTorus,
              PRIM_TYPE_TORUS, ANALYTIC_FLOATS, analyticStartTorus(counts))
  \o KindLoop(Slice(p.planes, counts.plane), PackPlane,
              PRIM_TYPE_PLANE, ANALYTIC_FLOATS, analyticStartPlane(counts))

\* 1414-1421 and the fields of the returned record; st is the state the
\* pushPrimitive calls left, threw tells whether validatePrimitiveRefTypes threw
PackResult(counts, primitiveCount0, st, loopSphere, loopsAnalytic, loopBezier) ==
  LET short == st.cursor < primitiveCount0
      primitiveCount == IF short THEN st.cursor ELSE primitiveCount0
      primitiveRefs == IF short THEN SubSeq(st.primitiveRefs, 1, st.cursor * PRIMITIVE_REF_UINTS)
                       ELSE st.primitiveRefs
  IN [threw |-> ~validatePrimitiveRefTypes(primitiveRefs, counts),
      primitiveCount |-> primitiveCount,
      counts |-> counts,
      aabbData |-> IF short THEN SubSeq(st.aabbData, 1, st.cursor * 6) ELSE st.aabbData,
      primitiveRefs |-> primitiveRefs,
      indices |-> [i \in 1..primitiveCount |-> i - 1],
      nodes |-> << >>,
      nodeCount |-> 0,
      sphereData |-> ApplyStores(Zeros(counts.sphere * SPHERE_FLOATS), loopSphere),
      analyticData |-> ApplyStores(Zeros(analyticTotal(counts) * ANALYTIC_FLOATS), loopsAnalytic),
      bezierData |-> ApplyStores(Zeros(counts.bezier * BEZIER_FLOATS), loopBezier)]

\* 1071-1412: the arrays are allocated and the loops run in source order;
\* pushPrimitive passes analyticBaseOffset 0 for spheres and bezier patches
PackLoops(counts, primitiveCount0, loopSphere, loopsAnalytic, loopBezier) ==
  PackResult(counts, primitiveCount0,
             PushAll(primitiveCount0, loopSphere \o loopsAnalytic \o loopBezier),
             loopSphere, loopsAnalytic, loopBezier)

PackLimited(p, lim) ==
  PackLoops(lim.counts, lim.primitiveCount,
            KindLoop(Slice(p.spheres, lim.counts.sphere), PackSphere,
                     PRIM_TYPE_SPHERE, SPHERE_FLOATS, 0),
            AnalyticLoops(p, lim.counts),
            KindLoop(Slice(p.bezierPatches, lim.counts.bezier), PackBezier,
                     PRIM_TYPE_BEZIER_PATCH, BEZIER_FLOATS, 0))

\* buildPrimitiveAcceleration up to its await of buildAabbBlasNodes (965-1463)
PackPrimitives(p) == PackLimited(p, RefLimited(AnalyticLimitedCounts(ClampedCounts(p))))

\* ------------------------------------------------------------------------
\* BVH conversion (pipeline.ts 320-423) and the tail of
\* buildPrimitiveAcceleration (1461-1492)
\* ------------------------------------------------------------------------
\* 0xffffffff, held as the 32-bit pattern read as a signed integer
BVH_INVALID_INDEX == -1

\* a link copied as it was read
CopiedIndex(value, nodeCount) == value

toValidIndex(value, nodeCount) ==
  IF value = BVH_INVALID_INDEX THEN BVH_INVALID_INDEX
  ELSE IF value >= 0 /\ value < nodeCount THEN value ELSE BVH_INVALID_INDEX

\* the primitive a leaf node resolves to (391-397)
LeafPrimitiveIndex(raw, primitiveCount) ==
  IF raw.geometryId < primitiveCount THEN raw.geometryId ELSE raw.entry

\* a raw index read as uint32 is in range when it is a natural below the bound
InRange(v, bound) == v >= 0 /\ v < bound

\* blas = [throws, nodeCount, byteLength, nodes] is what buildAabbBlasNodes
\* delivered; the result carries threw = TRUE where the code throws
convertWebRtxBlasNodesToFallback(blas, primitiveCount) ==
  LET nodeCount == blas.nodeCount
      strideOk == /\ blas.byteLength % nodeCount = 0
                  /\ blas.byteLength \div nodeCount >= 44
      leafBad == \E i \in 1..nodeCount :
                    /\ blas.nodes[i].geometryId >= 0
                    /\ ~InRange(LeafPrimitiveIndex(blas.nodes[i], primitiveCount), primitiveCount)
      none == [threw |-> TRUE, nodes |-> << >>, nodeCount |-> 0, indexData |-> << >>]
  IN IF nodeCount <= 0 THEN none
     ELSE IF primitiveCount <= 0
          THEN [threw |-> FALSE, nodes |-> << >>, nodeCount |-> 0, indexData |-> << >>]
     ELSE IF ~strideOk THEN none
     ELSE IF leafBad THEN none
     ELSE [threw |-> FALSE,
           nodes |-> [i \in 1..nodeCount |->
              LET raw == blas.nodes[i]
              IN IF raw.geometryId >= 0
                 THEN [min |-> raw.min, max |-> raw.max, left |-> BVH_INVALID_INDEX,
                       right |-> toValidIndex(raw.exit, nodeCount),
                       primitiveIndex |-> LeafPrimitiveIndex(raw, primitiveCount), leaf |-> 1]
                 ELSE [min |-> raw.min, max |-> raw.max,
                       left |-> toValidIndex(raw.entry, nodeCount),
                       right |-> toValidIndex(raw.exit, nodeCount),
                       primitiveIndex |-> 0, leaf |-> 0]],
           nodeCount |-> nodeCount,
           indexData |-> [i \in 1..primitiveCount |-> i - 1]]

\* the tail of the build without the comparison against the storage limit
FinishBuildNoLimit(a, blas) ==
  IF blas.throws THEN a
  ELSE IF blas.nodeCount > 0 /\ blas.byteLength > 0
  THEN LET converted == convertWebRtxBlasNodesToFallback(blas, a.primitiveCount)
       IN IF converted.threw THEN a
          ELSE [a EXCEPT !.nodes = converted.nodes, !.nodeCount = converted.nodeCount,
                         !.indices = converted.indexData]
  ELSE a

\* the PrimitiveAccelerationData returned once buildAabbBlasNodes has settled
FinishBuild(a, blas) ==
  IF blas.throws THEN a
  ELSE IF blas.nodeCount > 0 /\ blas.byteLength > 0
  THEN LET converted == convertWebRtxBlasNodesToFallback(blas, a.primitiveCount)
       IN IF converted.threw THEN a
          ELSE IF converted.nodeCount * BVH_NODE_BYTES <= storageBufferLimit
          THEN [a EXCEPT !.nodes = converted.nodes, !.nodeCount = converted.nodeCount,
                         !.indices = converted.indexData]
          ELSE a
  ELSE a

\* ------------------------------------------------------------------------
\* What buildAabbBlasNodes (../wasm_bvh_builder) may deliver for n AABBs
\* ------------------------------------------------------------------------
\* a root followed by n leaves chained through their exit links
TreeNodes(n) ==
  [i \in 1..(n + 1) |->
     IF i = 1
     THEN [min |-> ZeroVec, max |-> ZeroVec, entry |-> 1, exit |-> BVH_INVALID_INDEX,
           geometryId |-> -1]
     ELSE [min |-> ZeroVec, max |-> ZeroVec, entry |-> BVH_INVALID_INDEX,
           exit |-> IF i = n + 1 THEN BVH_INVALID_INDEX ELSE i, geometryId |-> i - 2]]

\* outcome names the case, "none" while buildAabbBlasNodes has not settled
BlasResult(outcome, throws, nodeCount, byteLength, nodes) ==
  [outcome |-> outcome, throws |-> throws, nodeCount |-> nodeCount,
   byteLength |-> byteLength, nodes |-> nodes]

BlasOutcomeNames ==
  {"valid", "throws", "empty", "nobytes", "stride", "fraction", "badleaf", "entryleaf", "badlink"}

BlasOutcome(name, n) ==
  LET t == TreeNodes(n)
  IN CASE name = "throws"    -> BlasResult(name, TRUE, 0, 0, << >>)
       [] name = "empty"     -> BlasResult(name, FALSE, 0, 0, << >>)
       [] name = "nobytes"   -> BlasResult(name, FALSE, n + 1, 0, << >>)
       [] name = "stride"    -> BlasResult(name, FALSE, n + 1, (n + 1) * 40, t)
       [] name = "fraction"  -> BlasResult(name, FALSE, n + 1, (n + 1) * 48 + 1, t)
       [] name = "badleaf"   -> BlasResult(name, FALSE, n + 1, (n + 1) * 48,
                                  [t EXCEPT ![n + 1].geometryId = n + 5, ![n + 1].entry = n + 7])
       [] name = "entryleaf" -> BlasResult(name, FALSE, n + 1, (n + 1) * 48,
                                  [t EXCEPT ![n + 1].geometryId = n + 5, ![n + 1].entry = n - 1])
       [] name = "badlink"   -> BlasResult(name, FALSE, n + 1, (n + 1) * 48,
                                  [t EXCEPT ![1].entry = n + 9, ![2].exit = n + 1])
       [] OTHER              -> BlasResult(name, FALSE, n + 1, (n + 1) * 48, t)

\* ------------------------------------------------------------------------
\* Scene instances
\* ------------------------------------------------------------------------
X == <<FX, 0, 0>>
Y == <<0, FX, 0>>
Z == <<0, 0, FX>>

Sphere(c, r) == [center |-> c, radius |-> r]
Cylinder(c, r, h, x, y, a) ==
  [center |-> c, radius |-> r, height |-> h, xdir |-> x, ydir |-> y, angleDeg |-> a]
Circle(c, r, x, y) == [center |-> c, radius |-> r, xdir |-> x, ydir |-> y]
Ellipse(c, rx, ry, x, y) ==
  [center |-> c, radiusX |-> rx, radiusY |-> ry, xdir |-> x, ydir |-> y]
Cone(c, r, h, x, y) == [center |-> c, radius |-> r, height |-> h, xdir |-> x, ydir |-> y]
Line(a, b, r) == [p0 |-> a, p1 |-> b, radius |-> r]
Torus(c, R, r, x, y, a) ==
  [center |-> c, majorRadius |-> R, minorRadius |-> r, xdir |-> x, ydir |-> y, angleDeg |-> a]
Plane(c, hw, hh, x, y) ==
  [center |-> c, halfWidth |-> hw, halfHeight |-> hh, xdir |-> x, ydir |-> y]
\* a bilinear-ish Hermite patch over the unit square at height h, tangents t
Patch(h, t, depth, eps) ==
  [p00 |-> <<0, 0, h>>, p10 |-> <<9000, 0, h>>, p01 |-> <<0, 9000, h>>, p11 |-> <<9000, 9000, h>>,
   du00 |-> <<9000, 0, t>>, du10 |-> <<9000, 0, -t>>, du01 |-> <<9000, 0, t>>, du11 |-> <<9000, 0, -t>>,
   dv00 |-> <<0, 9000, t>>, dv10 |-> <<0, 9000, t>>, dv01 |-> <<0, 9000, -t>>, dv11 |-> <<0, 9000, -t>>,
   duv00 |-> ZeroVec, duv10 |-> ZeroVec, duv01 |-> ZeroVec, duv11 |-> <<0, 0, 9 * t>>,
   maxDepth |-> depth, pixelEpsilon |-> eps]

ScenePrimitives(sp, cy, ci, el, co, li, to, pl, bz) ==
  [spheres |-> sp, cylinders |-> cy, circles |-> ci, ellipses |-> el, cones |-> co,
   lines |-> li, tori |-> to, planes |-> pl, bezierPatches |-> bz]

EmptyScene == ScenePrimitives(<< >>, << >>, << >>, << >>, << >>, << >>, << >>, << >>, << >>)

\* n distinct well-formed instances of each kind
SpheresN(n) == [i \in 1..n |-> Sphere(<<i * 1000, 0, 0>>, 5000 + i)]
CylindersN(n) == [i \in 1..n |-> Cylinder(<<0, i * 1000, 0>>, 4000, 2 * FX, X, Y, 360 * FX)]
CirclesN(n) == [i \in 1..n |-> Circle(<<0, 0, i * 1000>>, FX, <<3000, 4000, 0>>, <<FX, FX, 0>>)]
EllipsesN(n) == [i \in 1..n |-> Ellipse(<<i * 1000, FX, 0>>, FX, 5000, Y, Z)]
ConesN(n) == [i \in 1..n |-> Cone(<<i * 1000, 0, FX>>, 5000, FX, Z, X)]
LinesN(n) == [i \in 1..n |-> Line(<<i * 1000, 0, 0>>, <<0, FX, i * 1000>>, 500)]
ToriN(n) == [i \in 1..n |-> Torus(<<0, i * 1000, FX>>, FX, 2500, X, Z, 180 * FX)]
PlanesN(n) == [i \in 1..n |-> Plane(<<0, -i * 1000, 0>>, 2 * FX, FX, X, Z)]
PatchesN(n) == [i \in 1..n |-> Patch(i * 900, 2700, IF i = 1 THEN << >> ELSE <<4 * FX>>,
                                     IF i = 1 THEN << >> ELSE <<-FX>>)]

\* ------------------------------------------------------------------------
\* Scenes and device limits explored
\* ------------------------------------------------------------------------
PerKind == 2
BulkSpheres == 35

\* instances whose sizes are negative or zero, or whose basis is degenerate
DegenerateScene ==
  ScenePrimitives(
    <<Sphere(<<FX, 0, 0>>, -FX), Sphere(<<0, FX, 0>>, 0)>>,
    <<Cylinder(ZeroVec, FX, FX, ZeroVec, Y, 360 * FX),
      Cylinder(<<0, 0, FX>>, -FX, -FX, X, Y, 90 * FX)>>,
    <<Circle(ZeroVec, FX, X, <<2 * FX, 0, 0>>), Circle(<<FX, FX, 0>>, -FX, X, Y)>>,
    <<Ellipse(ZeroVec, -FX, 0, Y, Z)>>,
    <<Cone(ZeroVec, 5000, 0, ZeroVec, ZeroVec)>>,
    <<Line(<<FX, FX, FX>>, <<FX, FX, FX>>, -500)>>,
    <<Torus(ZeroVec, -FX, -2500, X, Z, 360 * FX)>>,
    <<Plane(ZeroVec, 0, -FX, X, Z)>>,
    << >>)

Scenes ==
  { EmptyScene,
    [EmptyScene EXCEPT !.spheres = SpheresN(1)],
    [EmptyScene EXCEPT !.spheres = <<Sphere(ZeroVec, -FX)>>],
    [EmptyScene EXCEPT !.bezierPatches = PatchesN(1)],
    ScenePrimitives(SpheresN(PerKind), CylindersN(PerKind), CirclesN(PerKind),
                    EllipsesN(PerKind), ConesN(PerKind), LinesN(PerKind), ToriN(PerKind),
                    PlanesN(PerKind), PatchesN(PerKind)),
    ScenePrimitives(SpheresN(2 * PerKind + 1), CylindersN(PerKind), CirclesN(PerKind),
                    EllipsesN(PerKind), ConesN(PerKind), LinesN(PerKind), ToriN(PerKind),
                    PlanesN(PerKind), << >>),
    [EmptyScene EXCEPT !.spheres = SpheresN(BulkSpheres), !.bezierPatches = PatchesN(2)],
    [EmptyScene EXCEPT !.spheres = SpheresN(BulkSpheres + 3)],
    DegenerateScene }

StorageLimits == {8, 40, 100, 576, 4096}

EmptyAcc ==
  [threw |-> FALSE, primitiveCount |-> 0, counts |-> ZeroCounts, aabbData |-> << >>,
   primitiveRefs |-> << >>, indices |-> << >>, nodes |-> << >>, nodeCount |-> 0,
   sphereData |-> << >>, analyticData |-> << >>, bezierData |-> << >>]

\* ------------------------------------------------------------------------
\* Fallback handle: storage buffers, uploads and the compute bind group
\* (util.ts 3-5, pipeline.ts 749-772, 851-963, 1494-1567)
\* ------------------------------------------------------------------------
alignTo(x, align) == ((x + align - 1) \div align) * align

BVH_NODE_FLOATS == 12

NoBuffer == 0
NoBindGroup == [bound |-> FALSE]

StorageNames == <<"sphere", "analytic", "bezier", "primitiveRef", "primitiveIndex", "primitiveBvh">>

\* the six storage records before any buffer exists (559-564)
NoStorages == [n \in {StorageNames[i] : i \in 1..6} |-> [buffer |-> NoBuffer, size |-> 0]]

ZeroNode ==
  [min |-> ZeroVec, max |-> ZeroVec, left |-> 0, right |-> 0, primitiveIndex |-> 0, leaf |-> 0]

\* requiredBytes without the minimum of one entry
ElementBytesOfCount(perEntry, count) ==
  alignTo(count * perEntry * BYTES_PER_ELEMENT, 16)

\* requiredBytes of ensureFloatStorageBuffer / ensureUintStorageBuffer (852-853, 867-868)
ElementRequiredBytes(perEntry, count) ==
  alignTo(Max2(1, count) * perEntry * BYTES_PER_ELEMENT, 16)

\* requiredBytes of ensureBvhStorageBuffer (882-883)
BvhRequiredBytes(nodeCount) == alignTo(Max2(1, nodeCount) * BVH_NODE_BYTES, 16)

\* the requiredBytes of the six ensure calls made for the given counts
\* (1513-1518, 1537-1542)
RequiredBytes(counts, primitiveCount, indexCount, nodeCount) ==
  [sphere |-> ElementRequiredBytes(SPHERE_FLOATS, counts.sphere),
   analytic |-> ElementRequiredBytes(ANALYTIC_FLOATS, AnalyticSum(counts)),
   bezier |-> ElementRequiredBytes(BEZIER_FLOATS, counts.bezier),
   primitiveRef |-> ElementRequiredBytes(PRIMITIVE_REF_UINTS, Max2(primitiveCount, 1)),
   primitiveIndex |-> ElementRequiredBytes(1, Max2(indexCount, 1)),
   primitiveBvh |-> BvhRequiredBytes(nodeCount)]

\* a buffer created only while the storage has none
NeedsBufferWhenMissing(storage, requiredBytes) == storage.buffer = NoBuffer

\* the condition under which an ensure call destroys and re-creates (854)
NeedsBuffer(storage, requiredBytes) ==
  storage.buffer = NoBuffer \/ storage.size < requiredBytes

\* how many of the first i ensure calls create a buffer
CreatedUpTo(st, required, i) ==
  Cardinality({j \in 1..i : NeedsBuffer(st[StorageNames[j]], required[StorageNames[j]])})

\* the six storage records after the six ensure calls, with `existing` buffers
\* created before them
ensureStorageBuffers(st, required, existing) ==
  [n \in DOMAIN st |->
     LET i == CHOOSE k \in 1..6 : StorageNames[k] = n
     IN IF NeedsBuffer(st[n], required[n])
        THEN [buffer |-> existing + CreatedUpTo(st, required, i), size |-> required[n]]
        ELSE st[n]]

\* the handles the six ensure calls call destroy() on
DestroyedByEnsure(st, required) ==
  {st[StorageNames[i]].buffer : i \in {k \in 1..6 : NeedsBuffer(st[StorageNames[k]],
                                                                required[StorageNames[k]])}}
    \ {NoBuffer}

\* a buffer as createBuffer returns it: zero-filled
FreshContent(n, size) ==
  IF n = "primitiveBvh" THEN [k \in 1..(size \div BVH_NODE_BYTES) |-> ZeroNode]
  ELSE Zeros(size \div BYTES_PER_ELEMENT)

\* the buffers the six ensure calls create, in creation order
CreatedByEnsure(st, required) ==
  LET made == {k \in 1..6 : NeedsBuffer(st[StorageNames[k]], required[StorageNames[k]])}
  IN [h \in 1..Cardinality(made) |->
        LET k == CHOOSE m \in made : Cardinality({j \in made : j <= m}) = h
        IN FreshContent(StorageNames[k], required[StorageNames[k]])]

\* queue.writeBuffer(buffer, 0, data): the leading elements are replaced
writeBuffer(content, data) == data \o SubSeq(content, Len(data) + 1, Len(content))

\* what each write*StorageBuffer call uploads: the data, or the zero record
\* when the data is empty (896-963)
Uploads(accel) ==
  [sphere |-> IF Len(accel.sphereData) > 0 THEN accel.sphereData ELSE Zeros(SPHERE_FLOATS),
   analytic |-> IF Len(accel.analyticData) > 0 THEN accel.analyticData
                ELSE Zeros(ANALYTIC_FLOATS),
   bezier |-> IF Len(accel.bezierData) > 0 THEN accel.bezierData ELSE Zeros(BEZIER_FLOATS),
   primitiveRef |-> IF Len(accel.primitiveRefs) > 0 THEN accel.primitiveRefs
                    ELSE Zeros(PRIMITIVE_REF_UINTS),
   primitiveIndex |-> IF Len(accel.indices) > 0 THEN accel.indices ELSE Zeros(1),
   primitiveBvh |-> IF Len(accel.nodes) > 0 THEN accel.nodes ELSE <<ZeroNode>>]

\* the buffers after the six uploads into the buffers st names
writeStorageBuffers(buffers, st, uploads) ==
  [h \in 1..Len(buffers) |->
     IF \E n \in DOMAIN st : st[n].buffer = h
     THEN writeBuffer(buffers[h], uploads[CHOOSE n \in DOMAIN st : st[n].buffer = h])
     ELSE buffers[h]]

\* the counts flushCameraUniform writes into the camera uniform (761-770)
flushCameraUniform(primitiveCount, nodeCount, counts) ==
  [primitiveCount |-> primitiveCount, bvhNodeCount |-> nodeCount, counts |-> counts,
   bezierPatchCount |-> counts.bezier]

\* the bind group rebuildComputeBindGroup creates over the current buffers
\* (1554-1566)
BindGroupOf(st) ==
  [bound |-> TRUE, sphere |-> st.sphere.buffer, analytic |-> st.analytic.buffer,
   bezier |-> st.bezier.buffer, primitiveRef |-> st.primitiveRef.buffer,
   primitiveIndex |-> st.primitiveIndex.buffer, primitiveBvh |-> st.primitiveBvh.buffer]

\* the bind group rebuilt only when there is none
NeedRebindWhenMissing(resized, bindGroup) == ~bindGroup.bound

\* the test that makes updateAllPrimitives rebuild the bind group (1528)
NeedRebind(resized, bindGroup) == resized \/ ~bindGroup.bound

\* the handle's counters, storages and GPU objects gathered as one record
Host(count, indexCount, nodeCount, counts, st, bindGroup, uniform, buffers, dead) ==
  [primitiveCountValue |-> count, primitiveIndexCountValue |-> indexCount,
   primitiveBvhNodeCountValue |-> nodeCount, currentPrimitiveCounts |-> counts,
   storages |-> st, computeBindGroup |-> bindGroup, cameraUniformBuffer |-> uniform,
   gpuBuffers |-> buffers, destroyed |-> dead]

\* the handle as its declarations leave it (559-591)
EmptyHost ==
  Host(0, 0, 0, ZeroCounts, NoStorages, NoBindGroup, flushCameraUniform(0, 0, ZeroCounts),
       << >>, {})

RequiredOf(h) ==
  RequiredBytes(h.currentPrimitiveCounts, h.primitiveCountValue, h.primitiveIndexCountValue,
                h.primitiveBvhNodeCountValue)

\* the six ensure calls (1513-1518, 1537-1542)
EnsureIn(h, required) ==
  [h EXCEPT !.storages = ensureStorageBuffers(h.storages, required, Len(h.gpuBuffers)),
            !.gpuBuffers = h.gpuBuffers \o CreatedByEnsure(h.storages, required),
            !.destroyed = h.destroyed \cup DestroyedByEnsure(h.storages, required)]

\* createBindGroup (1554-1566); the canvas keeps a non-zero internal size, so
\* the compute pipeline, the six buffers and outputTextureView all exist
Rebind(h) == [h EXCEPT !.computeBindGroup = BindGroupOf(h.storages)]

rebuildComputeBindGroup(h) == Rebind(EnsureIn(h, RequiredOf(h)))

\* updateAllPrimitives from its resumption to its end (1496-1530)
AssignCounts(h, accel) ==
  [h EXCEPT !.primitiveCountValue = accel.primitiveCount,
            !.primitiveIndexCountValue = Len(accel.indices),
            !.primitiveBvhNodeCountValue = accel.nodeCount,
            !.currentPrimitiveCounts = accel.counts]

Resized(h) ==
  \E i \in 1..6 : NeedsBuffer(h.storages[StorageNames[i]], RequiredOf(h)[StorageNames[i]])

Upload(h, accel) ==
  [h EXCEPT !.gpuBuffers = writeStorageBuffers(h.gpuBuffers, h.storages, Uploads(accel)),
            !.cameraUniformBuffer =
               flushCameraUniform(h.primitiveCountValue, h.primitiveBvhNodeCountValue,
                                  h.currentPrimitiveCounts)]

MaybeRebind(h, resized) ==
  IF NeedRebind(resized, h.computeBindGroup) THEN rebuildComputeBindGroup(h) ELSE h

UpdateCounted(h, accel) ==
  MaybeRebind(Upload(EnsureIn(h, RequiredOf(h)), accel), Resized(h))

updateAllPrimitives(h, accel) == UpdateCounted(AssignCounts(h, accel), accel)

\* the handle's variables read as, and set from, one record
HostState ==
  Host(primitiveCountValue, primitiveIndexCountValue, primitiveBvhNodeCountValue,
       currentPrimitiveCounts, storages, computeBindGroup, cameraUniformBuffer, gpuBuffers,
       destroyed)

HostIs(h) ==
  /\ primitiveCountValue = h.primitiveCountValue
  /\ primitiveIndexCountValue = h.primitiveIndexCountValue
  /\ primitiveBvhNodeCountValue = h.primitiveBvhNodeCountValue
  /\ currentPrimitiveCounts = h.currentPrimitiveCounts
  /\ storages = h.storages
  /\ computeBindGroup = h.computeBindGroup
  /\ cameraUniformBuffer = h.cameraUniformBuffer
  /\ gpuBuffers = h.gpuBuffers
  /\ destroyed = h.destroyed

HostBecomes(h) ==
  /\ primitiveCountValue' = h.primitiveCountValue
  /\ primitiveIndexCountValue' = h.primitiveIndexCountValue
  /\ primitiveBvhNodeCountValue' = h.primitiveBvhNodeCountValue
  /\ currentPrimitiveCounts' = h.currentPrimitiveCounts
  /\ storages' = h.storages
  /\ computeBindGroup' = h.computeBindGroup
  /\ cameraUniformBuffer' = h.cameraUniformBuffer
  /\ gpuBuffers' = h.gpuBuffers
  /\ destroyed' = h.destroyed

\* the buffers a bind group binds
BoundBuffers(bindGroup) ==
  IF bindGroup.bound THEN {bindGroup[StorageNames[i]] : i \in 1..6} ELSE {}

\* a dispatch in flight, with the bound buffers a later scene update has
\* called destroy() on or uploaded into
InFlight(bindGroup) ==
  [bindGroup |-> bindGroup, destroyedBound |-> {}, overwritten |-> {},
   uniformOverwritten |-> FALSE]

TouchedBy(d, before, after) ==
  [d EXCEPT !.destroyedBound = @ \cup (BoundBuffers(d.bindGroup)
                                        \cap (after.destroyed \ before.destroyed)),
            !.overwritten = @ \cup (BoundBuffers(d.bindGroup)
                                      \cap {after.storages[StorageNames[i]].buffer : i \in 1..6}),
            !.uniformOverwritten = TRUE]

\* the fallback handle's variables while no fallback pipeline exists
FallbackAbsent ==
  /\ currentScenePrimitives = EmptyScene
  /\ pending = << >>
  /\ calls = 0
  /\ HostIs(EmptyHost)
  /\ inflight = << >>
  /\ applied = EmptyAcc

\* ------------------------------------------------------------------------
\* Ray-tracing path: buildAnalyticPrimitivesTLAS (scene_descriptor.ts 195-401)
\* and the branch chain of the intersection shader (analytic_shaders.ts 423-541)
\* ------------------------------------------------------------------------
\* normalize of scene_descriptor.ts 195-197: a zero length divides by 1
normalize(v) ==
  IF hypot(v) = 0 THEN v ELSE <<FDiv(v[1], hypot(v)), FDiv(v[2], hypot(v)), FDiv(v[3], hypot(v))>>

\* ydir made orthogonal to the normalised xdir, as each loop does
OrthoY(xdn, ydir) ==
  normalize(subtractVec3(normalize(ydir), scaleVec3(xdn, dotVec3(xdn, normalize(ydir)))))

Box(kind, slot, min, max) == [kind |-> kind, slot |-> slot, min |-> min, max |-> max]

\* the AABB packed for instance number slot of each kind (216-349)
SphereAabb(s, slot) ==
  Box("sphere", slot, subtractVec3(s.center, Splat(s.radius)), addVec3(s.center, Splat(s.radius)))

CylinderExt(c, xdn, ydn) ==
  addVec3(addVec3(scaleVec3(absVec3(xdn), c.radius), scaleVec3(absVec3(ydn), c.radius)),
          scaleVec3(absVec3(crossVec3(xdn, ydn)), c.height \div 2))

CylinderAabb(c, slot) ==
  Box("cylinder", slot,
      subtractVec3(c.center, CylinderExt(c, normalize(c.xdir), OrthoY(normalize(c.xdir), c.ydir))),
      addVec3(c.center, CylinderExt(c, normalize(c.xdir), OrthoY(normalize(c.xdir), c.ydir))))

CircleExt(d, cxd, cyd) == scaleVec3(addVec3(absVec3(cxd), absVec3(cyd)), d.radius)

CircleAabb(d, slot) ==
  Box("circle", slot,
      subtractVec3(d.center, CircleExt(d, normalize(d.xdir), OrthoY(normalize(d.xdir), d.ydir))),
      addVec3(d.center, CircleExt(d, normalize(d.xdir), OrthoY(normalize(d.xdir), d.ydir))))

PlaneAabb == Box("plane", 0, <<-10 * FX, -20500, -10 * FX>>, <<10 * FX, -19500, 10 * FX>>)

ConeBox(co, slot, baseCenter, apex, baseExt, pad) ==
  Box("cone", slot,
      subtractVec3(Vmin(subtractVec3(baseCenter, baseExt), apex), Splat(pad)),
      addVec3(Vmax(addVec3(baseCenter, baseExt), apex), Splat(pad)))

ConeAxes(co, slot, kx, ky, kz) ==
  ConeBox(co, slot,
          addVec3(co.center, scaleVec3(kz, co.height \div 2)),
          subtractVec3(co.center, scaleVec3(kz, co.height \div 2)),
          addVec3(scaleVec3(absVec3(kx), co.radius), scaleVec3(absVec3(ky), co.radius)),
          Max2(1, FMul(10, Max2(co.radius, co.height))))

ConeAabb(co, slot) ==
  ConeAxes(co, slot, normalize(co.xdir), OrthoY(normalize(co.xdir), co.ydir),
           crossVec3(normalize(co.xdir), OrthoY(normalize(co.xdir), co.ydir)))

EllipseExt(exd, eyd, rMax) ==
  scaleVec3(addVec3(scaleVec3(addVec3(absVec3(exd), absVec3(eyd)), rMax),
                    scaleVec3(absVec3(normalize(crossVec3(exd, eyd))), Max2(500, rMax \div 2))),
            2 * FX)

EllipseAabb(e, slot) ==
  Box("ellipse", slot,
      subtractVec3(subtractVec3(e.center,
                                EllipseExt(normalize(e.xdir), OrthoY(normalize(e.xdir), e.ydir),
                                           Max2(e.rx, e.ry))),
                   Splat(Max2(50, FMul(500, Max2(e.rx, e.ry))))),
      addVec3(addVec3(e.center,
                      EllipseExt(normalize(e.xdir), OrthoY(normalize(e.xdir), e.ydir),
                                 Max2(e.rx, e.ry))),
              Splat(Max2(50, FMul(500, Max2(e.rx, e.ry))))))

LineAabb(L, slot) ==
  Box("line", slot,
      subtractVec3(subtractVec3(Vmin(L.p0, L.p1), Splat(L.radius)),
                   Splat(Max2(5, FMul(200, L.radius)))),
      addVec3(addVec3(Vmax(L.p0, L.p1), Splat(L.radius)), Splat(Max2(5, FMul(200, L.radius)))))

TorusExt(t, txd, tz) ==
  scaleVec3(addVec3(scaleVec3(addVec3(absVec3(txd), absVec3(tz)), t.majorR + t.minorR),
                    Splat(t.minorR)),
            13000)

TorusPad(t) == Max2(Max2(FMul(100, t.majorR + t.minorR), FMul(200, t.minorR)), 50)

TorusAabb(t, slot) ==
  Box("torus", slot,
      subtractVec3(subtractVec3(t.center,
                     TorusExt(t, normalize(t.xdir),
                              crossVec3(normalize(t.xdir), OrthoY(normalize(t.xdir), t.ydir)))),
                   Splat(TorusPad(t))),
      addVec3(addVec3(t.center,
                TorusExt(t, normalize(t.xdir),
                         crossVec3(normalize(t.xdir), OrthoY(normalize(t.xdir), t.ydir)))),
              Splat(TorusPad(t))))

BezierAabb(patch, slot) ==
  Box("bezier", slot, convertHermitePatchToBezier(patch).boundsMin,
      convertHermitePatchToBezier(patch).boundsMax)

\* the instance lists buildAnalyticPrimitivesTLAS packs: a list of p, else the
\* single instance held in p's scalar fields, else nothing (216, 222, 237,
\* 255, 275-279, 297-311, 315-325, 344)
ListOrSingle(list, single) == IF Len(list) > 0 THEN list ELSE <<single>>

ListOrSingleIf(list, single, present) ==
  IF Len(list) > 0 THEN list ELSE IF present THEN <<single>> ELSE << >>

Unless(spheresOnly, list) == IF spheresOnly THEN << >> ELSE list

Boxes(list, Aabb(_, _)) == [i \in 1..Len(list) |-> Aabb(list[i], i - 1)]

\* gid bases in packing order and the meta record (355-365, 389-399)
Meta(nSphere, nCyl, nCircle, nPlane, nCone, nEllipse, nLine, nTorus, nBezier) ==
  [sphereBase |-> 0, sphereCount |-> nSphere,
   cylinderBase |-> nSphere, cylinderCount |-> nCyl,
   circleBase |-> nSphere + nCyl, circleCount |-> nCircle,
   planeBase |-> nSphere + nCyl + nCircle, planeCount |-> nPlane,
   coneBase |-> nSphere + nCyl + nCircle + nPlane, coneCount |-> nCone,
   ellipseBase |-> nSphere + nCyl + nCircle + nPlane + nCone, ellipseCount |-> nEllipse,
   lineBase |-> nSphere + nCyl + nCircle + nPlane + nCone + nEllipse, lineCount |-> nLine,
   torusBase |-> nSphere + nCyl + nCircle + nPlane + nCone + nEllipse + nLine,
   torusCount |-> nTorus,
   bezierBase |-> nSphere + nCyl + nCircle + nPlane + nCone + nEllipse + nLine + nTorus,
   bezierCount |-> nBezier]

\* the bottom-level geometries in the order of 370-380; geometry index g is
\* geometries[g + 1]
Built(sp, cy, ci, pl, co, el, li, to, bz) ==
  [geometries |-> sp \o cy \o ci \o pl \o co \o el \o li \o to \o bz,
   meta |-> Meta(Len(sp), Len(cy), Len(ci), Len(pl), Len(co), Len(el), Len(li), Len(to),
                 Len(bz))]

buildAnalyticPrimitivesTLAS(p, ovr) ==
  Built(Boxes(ListOrSingle(p.spheres, p.sphere), SphereAabb),
        Boxes(Unless(ovr.spheresOnly, ListOrSingle(p.cylinders, p.cylinder)), CylinderAabb),
        Boxes(Unless(ovr.spheresOnly, ListOrSingle(p.circles, p.circle)), CircleAabb),
        IF ovr.includePlane THEN <<PlaneAabb>> ELSE << >>,
        Boxes(Unless(ovr.spheresOnly, ListOrSingle(p.cones, p.cone)), ConeAabb),
        Boxes(Unless(ovr.spheresOnly,
                     ListOrSingleIf(p.ellipses, p.ellipse, p.ellipse.rx # 0 /\ p.ellipse.ry # 0)),
              EllipseAabb),
        Boxes(Unless(ovr.spheresOnly, ListOrSingleIf(p.lines, p.line, p.line.radius > 0)),
              LineAabb),
        Boxes(Unless(ovr.spheresOnly,
                     ListOrSingleIf(p.tori, p.torus,
                                    p.torus.majorR # 0 /\ p.torus.minorR # 0)),
              TorusAabb),
        Boxes(Unless(ovr.spheresOnly, p.bezierPatches), BezierAabb))

\* writeMeta (scene.ts 820-835): the five uvec4 of the SceneMeta uniform
writeMeta(m) ==
  [m0 |-> <<m.torusBase, m.torusCount, m.ellipseBase, m.ellipseCount>>,
   m1 |-> <<m.sphereBase, m.sphereCount, m.cylinderBase, m.cylinderCount>>,
   m2 |-> <<m.circleBase, m.circleCount, m.planeBase, m.planeCount>>,
   m3 |-> <<m.coneBase, m.coneCount, m.lineBase, m.lineCount>>,
   m4 |-> <<m.bezierBase, m.bezierCount, 0, 0>>]

InGidRange(gid, base, count) == gid >= base /\ gid < base + count

Kernel(kind, slot) == [kind |-> kind, slot |-> slot]

\* the cylinder kernel that reads the uCyl uniform instead of a slot
UniformSlot == -1

\* main of the intersection shader: the kernel the branch chain runs for
\* geometry index gid and the slot it reads (analytic_shaders.ts 423-541; the
\* set without the bezier branch is analytic_shaders_no_bezier.ts 75-161)
Route(meta, gid, useBezier) ==
  IF InGidRange(gid, meta.m1[1], meta.m1[2]) THEN Kernel("sphere", gid - meta.m1[1])
  ELSE IF InGidRange(gid, meta.m1[3], meta.m1[4]) THEN Kernel("cylinder", gid - meta.m1[3])
  ELSE IF gid = 1 THEN Kernel("cylinder", UniformSlot)
  ELSE IF InGidRange(gid, meta.m2[1], meta.m2[2]) THEN Kernel("circle", gid - meta.m2[1])
  ELSE IF InGidRange(gid, meta.m2[3], meta.m2[4]) THEN Kernel("plane", gid - meta.m2[3])
  ELSE IF InGidRange(gid, meta.m3[1], meta.m3[2]) THEN Kernel("cone", gid - meta.m3[1])
  ELSE IF InGidRange(gid, meta.m0[3], meta.m0[4]) THEN Kernel("ellipse", gid - meta.m0[3])
  ELSE IF InGidRange(gid, meta.m3[3], meta.m3[4]) THEN Kernel("line", gid - meta.m3[3])
  ELSE IF useBezier /\ InGidRange(gid, meta.m4[1], meta.m4[2])
    THEN Kernel("bezier", gid - meta.m4[1])
  ELSE IF InGidRange(gid, meta.m0[1], meta.m0[2]) THEN Kernel("torus", gid - meta.m0[1])
  ELSE Kernel("none", 0)
\* ------------------------------------------------------------------------
\* Patch traversal of the intersection shader (analytic_shaders.ts 66-421).
\* A float beyond every distance the rays explore is held as one of three
\* ordered marks: BeyondGrid < ALMOST_INF < INF.
\* ------------------------------------------------------------------------
BEZIER_MAX_QUEUE == 48
MAX_IT == 8
\* 1e-4 is one unit of the grid
EPS_F == 1
\* 1e-5 is held as the smallest positive grid value
EPS_P == 1
\* u and v may leave [0, 1] by 0.01
DomainMargin == 100
\* 1e38, the rayTMax main passes (428, 527)
INF == 2000000000
\* 1e37 (415)
ALMOST_INF == 1500000000
\* the product of a non-zero grid value and 1 / 1e-6
BeyondGrid == 1000000000
\* 1 / EPS of makeSafeInverse, which the grid cannot hold
InverseOfEps == 1000000001

\* GLSL mix, clamp, min and max on scalars and vectors
\* the member of a one-element set; it holds a value that is used several
\* times
Only(S) == CHOOSE x \in S : TRUE

mix(x, y, a) == FMul(x, FX - a) + FMul(y, a)
mix3(x, y, a) == <<mix(x[1], y[1], a), mix(x[2], y[2], a), mix(x[3], y[3], a)>>
clamp(x, lo, hi) == Min2(Max2(x, lo), hi)
MaxComponent(v) == Max2(Max2(v[1], v[2]), v[3])
MinComponent(v) == Min2(Min2(v[1], v[2]), v[3])

\* makeSafeInverse (90-98): a component below 1e-6 in magnitude is zero on
\* the grid and is replaced by +EPS
makeSafeInverse(dir) ==
  [a \in 1..3 |-> IF dir[a] # 0 THEN FDiv(FX, dir[a]) ELSE InverseOfEps]

\* (b - origin) * invDir for one component
SlabProduct(delta, inv) ==
  IF inv # InverseOfEps THEN FMul(delta, inv)
  ELSE IF delta = 0 THEN 0 ELSE Sgn(delta) * BeyondGrid

\* (b - origin) * invDir on the three axes
Slabs(b, origin, invDir) ==
  <<SlabProduct(b[1] - origin[1], invDir[1]), SlabProduct(b[2] - origin[2], invDir[2]),
    SlabProduct(b[3] - origin[3], invDir[3])>>

\* intersectAabbExt (100-108); t holds t0 and t1, r holds tEnter and tExit
intersectAabbExt(bmin, bmax, origin, invDir, tMin, tMax) ==
  Only({ Only({ [hit |-> r[2] >= r[1], tEnter |-> r[1], tExit |-> r[2]] :
                r \in {<<Max2(MaxComponent(<<Min2(t[1][1], t[2][1]), Min2(t[1][2], t[2][2]),
                                              Min2(t[1][3], t[2][3])>>), tMin),
                         Min2(MinComponent(<<Max2(t[1][1], t[2][1]), Max2(t[1][2], t[2][2]),
                                              Max2(t[1][3], t[2][3])>>), tMax)>>} }) :
         t \in {<<Slabs(bmin, origin, invDir), Slabs(bmax, origin, invDir)>>} })

\* bezierIdx, bezierGet (110-116)
bezierIdx(u, v) == u * 4 + v
bezierGet(cp, u, v) == cp[bezierIdx(u, v) + 1]

\* three rounds of mix over four points: the last two points d, e and the
\* point on the curve
Casteljau(p0, p1, p2, p3, s) ==
  Only({ Only({ [d |-> m[1], e |-> m[2], p |-> mix3(m[1], m[2], s)] :
                m \in {<<mix3(l[1], l[2], s), mix3(l[2], l[3], s)>>} }) :
         l \in {<<mix3(p0, p1, s), mix3(p1, p2, s), mix3(p2, p3, s)>>} })

Times3(v) == <<3 * v[1], 3 * v[2], 3 * v[3]>>

\* the four points of row i of a control net, and of its column j
RowOf(cp, i) == <<bezierGet(cp, i, 0), bezierGet(cp, i, 1), bezierGet(cp, i, 2), bezierGet(cp, i, 3)>>
ColumnOf(cp, j) == <<bezierGet(cp, 0, j), bezierGet(cp, 1, j), bezierGet(cp, 2, j), bezierGet(cp, 3, j)>>

CasteljauOf(r, s) == Only({ Casteljau(q[1], q[2], q[3], q[4], s) : q \in {r} })

\* bezierEval (137-178)
bezierEval(cp, u, v) ==
  Only({ [P |-> along[1].p, dPu |-> Times3(subtractVec3(along[1].e, along[1].d)),
          dPv |-> Times3(subtractVec3(along[2].e, along[2].d))] :
         along \in {<<CasteljauOf(<<CasteljauOf(RowOf(cp, 0), v).p, CasteljauOf(RowOf(cp, 1), v).p,
                                    CasteljauOf(RowOf(cp, 2), v).p, CasteljauOf(RowOf(cp, 3), v).p>>, u),
                      CasteljauOf(<<CasteljauOf(ColumnOf(cp, 0), u).p, CasteljauOf(ColumnOf(cp, 1), u).p,
                                    CasteljauOf(ColumnOf(cp, 2), u).p, CasteljauOf(ColumnOf(cp, 3), u).p>>, v)>>} })

\* the two halves of a cubic split at 0.5, as both split loops compute them
SplitCurve(a, b, c, d) ==
  Only({ Only({ [lo |-> <<a, l[1], m[1], mix3(m[1], m[2], FX \div 2)>>,
                 hi |-> <<mix3(m[1], m[2], FX \div 2), m[2], l[3], d>>] :
                m \in {<<mix3(l[1], l[2], FX \div 2), mix3(l[2], l[3], FX \div 2)>>} }) :
         l \in {<<mix3(a, b, FX \div 2), mix3(b, c, FX \div 2), mix3(c, d, FX \div 2)>>} })

SplitCurveOf(r) == Only({ SplitCurve(q[1], q[2], q[3], q[4]) : q \in {r} })

\* the control net whose rows are r0..r3, and the one whose columns they are
NetOfRows(r0, r1, r2, r3) == r0 \o r1 \o r2 \o r3
NetOfColumns(c0, c1, c2, c3) ==
  <<c0[1], c1[1], c2[1], c3[1], c0[2], c1[2], c2[2], c3[2],
    c0[3], c1[3], c2[3], c3[3], c0[4], c1[4], c2[4], c3[4]>>

\* splitAlongV (180-201)
splitAlongV(src) ==
  Only({ [lo |-> NetOfRows(s[1].lo, s[2].lo, s[3].lo, s[4].lo),
          hi |-> NetOfRows(s[1].hi, s[2].hi, s[3].hi, s[4].hi)] :
         s \in {<<SplitCurveOf(RowOf(src, 0)), SplitCurveOf(RowOf(src, 1)),
                  SplitCurveOf(RowOf(src, 2)), SplitCurveOf(RowOf(src, 3))>>} })

\* the first loop of subdivideBezierPatch (206-226)
SplitAlongU(src) ==
  Only({ [left |-> NetOfColumns(s[1].lo, s[2].lo, s[3].lo, s[4].lo),
          right |-> NetOfColumns(s[1].hi, s[2].hi, s[3].hi, s[4].hi)] :
         s \in {<<SplitCurveOf(ColumnOf(src, 0)), SplitCurveOf(ColumnOf(src, 1)),
                  SplitCurveOf(ColumnOf(src, 2)), SplitCurveOf(ColumnOf(src, 3))>>} })

\* subdivideBezierPatch (203-228): c0, c1, c2, c3
subdivideBezierPatch(src) ==
  Only({ Only({ <<lr[1].lo, lr[2].lo, lr[1].hi, lr[2].hi>> :
                lr \in {<<splitAlongV(halves.left), splitAlongV(halves.right)>>} }) :
         halves \in {SplitAlongU(src)} })

\* computeBezierBounds (230-238)
computeBezierBounds(cp) == BoundsOf(cp)

\* length(v) < eps for an eps of a few grid units
LengthBelow(v, eps) ==
  Only({ MaxComponent(absVec3(w)) < eps /\ hypot(w) < eps : w \in {v} })

\* the same test without the bounds on u and v
InsideRangeOnly(u, v, t, tMin, tMax) == t >= tMin /\ t <= tMax

\* the `inside` test of newtonRefine (252, 277)
Inside(u, v, t, tMin, tMax) ==
  /\ u >= -DomainMargin /\ u <= FX + DomainMargin
  /\ v >= -DomainMargin /\ v <= FX + DomainMargin
  /\ t >= tMin /\ t <= tMax

Residual(cp, rayOrigin, rayDir, u, v, t) ==
  subtractVec3(bezierEval(cp, u, v).P, addVec3(rayOrigin, scaleVec3(rayDir, t)))

Returned(n, flag) == [n EXCEPT !.ret = flag]

\* the second half of one iteration (268-282): the step is applied, and a
\* step below EPS_P returns true when the new point is inside and converged
Stepped(n, rayOrigin, rayDir, du, dv, dt) ==
  Only({ IF /\ Abs(du) < EPS_P /\ Abs(dv) < EPS_P /\ Abs(dt) < EPS_P
            /\ Inside(moved.u, moved.v, moved.t, n.tMin, n.tMax)
            /\ LengthBelow(Residual(n.cp, rayOrigin, rayDir, moved.u, moved.v, moved.t), EPS_F)
         THEN Returned(moved, "true")
         ELSE IF moved.iter >= MAX_IT THEN Returned(moved, "false") ELSE moved :
         moved \in {[n EXCEPT !.u = n.u + du, !.v = n.v + dv, !.t = n.t + dt,
                              !.iter = n.iter + 1]} })

\* the solve of one iteration (255-267); r holds r0, r1, r2 and s holds det
\* and invDet
Solved(n, rayOrigin, rayDir, e, F) ==
  Only({ Only({ IF Abs(s[1]) < 1 THEN Returned(n, "false")
                ELSE Only({ Stepped(n, rayOrigin, rayDir, d[1], d[2], d[3]) :
                            d \in {<<FMul(dotVec3(r[1], F), s[2]), FMul(dotVec3(r[2], F), s[2]),
                                     FMul(dotVec3(r[3], F), s[2])>>} }) :
                s \in {<<dotVec3(e.dPu, r[1]),
                         IF dotVec3(e.dPu, r[1]) = 0 THEN 0 ELSE FDiv(-FX, dotVec3(e.dPu, r[1]))>>} }) :
         r \in {<<crossVec3(e.dPv, <<-rayDir[1], -rayDir[2], -rayDir[3]>>),
                  crossVec3(<<-rayDir[1], -rayDir[2], -rayDir[3]>>, e.dPu),
                  crossVec3(e.dPu, e.dPv)>>} })

\* one iteration of the loop of newtonRefine (244-283); leaving the loop
\* after MAX_IT iterations returns false (285)
NewtonIteration(n, rayOrigin, rayDir) ==
  Only({ Only({ IF LengthBelow(F, EPS_F)
                THEN Returned(n, IF Inside(n.u, n.v, n.t, n.tMin, n.tMax) THEN "true" ELSE "false")
                ELSE Solved(n, rayOrigin, rayDir, e, F) :
                F \in {subtractVec3(e.P, addVec3(rayOrigin, scaleVec3(rayDir, n.t)))} }) :
         e \in {bezierEval(n.cp, n.u, n.v)} })

\* the locals intersectBezierPatch computes before its loop (297-304)
PixelEps(patch) == Max2(patch.pixelEpsilon, 1)
MaxDepthOf(patch) == clamp((patch.maxDepth + FX \div 2) \div FX, 1, 16)
Pow2(n) == IF n <= 0 THEN 1 ELSE 2 ^ n
BaseLeafEdge(patch) ==
  Max2(PixelEps(patch),
       MaxComponent(subtractVec3(patch.boundsMax, patch.boundsMin)) \div Pow2(MaxDepthOf(patch)))

BezierNode(cp, bmin, bmax, u0, v0, u1, v1, tEnter, depth) ==
  [cp |-> cp, boundsMin |-> bmin, boundsMax |-> bmax, u0 |-> u0, v0 |-> v0, u1 |-> u1,
   v1 |-> v1, tEnter |-> tEnter, depth |-> depth]

\* the scan taking slot 0 whatever it holds
FirstSlot(q) == 0

\* the scan for the smallest tEnter (319-326): the first of equal entries
\* wins; slots are counted from 0
MinSlot(q) ==
  (CHOOSE i \in 1..Len(q) :
     /\ \A j \in 1..Len(q) : q[j].tEnter >= q[i].tEnter
     /\ \A j \in 1..(i - 1) : q[j].tEnter > q[i].tEnter) - 1

\* queue[bestIdx] = queue[--size] (328)
RemoveSlot(q, idx) ==
  IF idx + 1 = Len(q) THEN SubSeq(q, 1, Len(q) - 1)
  ELSE [SubSeq(q, 1, Len(q) - 1) EXCEPT ![idx + 1] = q[Len(q)]]

\* the leaf test without the depth limit
IsLeafBySize(n, a) ==
  LET maxEdge == MaxComponent(subtractVec3(n.boundsMax, n.boundsMin))
      distanceEstimate == Max2(Max2(n.tEnter, a.rayTMin), 0)
      screenLeafEdge == Max2(FMul(distanceEstimate, a.pixelWorldSlope), 1)
      nodeLeafEdge == Max2(BaseLeafEdge(a.patch), screenLeafEdge)
  IN maxEdge <= nodeLeafEdge

\* the leaf test of one node (332-337)
IsLeaf(n, a) ==
  LET maxEdge == MaxComponent(subtractVec3(n.boundsMax, n.boundsMin))
      distanceEstimate == Max2(Max2(n.tEnter, a.rayTMin), 0)
      screenLeafEdge == Max2(FMul(distanceEstimate, a.pixelWorldSlope), 1)
      nodeLeafEdge == Max2(BaseLeafEdge(a.patch), screenLeafEdge)
  IN maxEdge <= nodeLeafEdge \/ n.depth >= MaxDepthOf(a.patch)


\* one of the four child blocks (362-413) pushing into a queue that stays
\* within its slots
PushedUnguarded(q, survives, child) == IF survives THEN Append(q, child) ELSE q

Pushed(q, survives, child) ==
  IF Len(q) < BEZIER_MAX_QUEUE /\ survives THEN Append(q, child) ELSE q

\* the child node built from control net cp over [u0, u1] x [v0, v1]; the
\* 1e-6 added to its bounds is below the grid
ChildOf(cp, b, u0, v0, u1, v1, r, depth) ==
  BezierNode(cp, b.min, b.max, u0, v0, u1, v1, r.tEnter, depth)

ChildTest(cp, a, farBound) ==
  Only({ intersectAabbExt(<<b.min[1], b.min[2], b.min[3]>>, <<b.max[1], b.max[2], b.max[3]>>,
                          a.rayOrigin, makeSafeInverse(a.rayDir), a.rayTMin, farBound) :
         b \in {computeBezierBounds(cp)} })

\* one of the four child blocks: whether the child survives, and its node
ChildBlock(cp, a, farBound, u0, v0, u1, v1, depth) ==
  Only({ [survives |-> r.hit,
          child |-> ChildOf(cp, computeBezierBounds(cp), u0, v0, u1, v1, r, depth)] :
         r \in {ChildTest(cp, a, farBound)} })

\* the queue after the four child blocks
WithChildren(q, n, a, c, uMid, vMid, farBound) ==
  Only({ Pushed(Pushed(Pushed(Pushed(q, b[1].survives, b[1].child),
                              b[2].survives, b[2].child),
                       b[3].survives, b[3].child),
                b[4].survives, b[4].child) :
         b \in {<<ChildBlock(c[1], a, farBound, n.u0, n.v0, uMid, vMid, n.depth + 1),
                  ChildBlock(c[2], a, farBound, uMid, n.v0, n.u1, vMid, n.depth + 1),
                  ChildBlock(c[3], a, farBound, n.u0, vMid, uMid, n.v1, n.depth + 1),
                  ChildBlock(c[4], a, farBound, uMid, vMid, n.u1, n.v1, n.depth + 1)>>} })

NoNode == [depth |-> -1]
NoNewton == [ret |-> "none"]
NoHit == [hit |-> FALSE, hitT |-> 0, hitUV |-> <<0, 0>>]

PatchTraversalAbsent ==
  /\ args = [patch |-> "none"]
  /\ at = "absent"
  /\ queue = << >>
  /\ node = NoNode
  /\ bestIdx = 0
  /\ bestT = 0
  /\ bestUV = <<0, 0>>
  /\ hasHit = FALSE
  /\ newton = NoNewton
  /\ hit = NoHit


\* the ray-tracing handle's variables while no ray-tracing scene exists
RayTracingAbsent ==
  /\ overrides = [spheresOnly |-> FALSE, includePlane |-> TRUE]
  /\ curr = [version |-> 0]
  /\ currObject = 0
  /\ rebuilds = << >>
  /\ rebuildCount = 0
  /\ tlas = [tag |-> [from |-> 0, scene |-> 0], geometries |-> << >>]
  /\ sceneMetaBuf = [tag |-> [from |-> 0, scene |-> 0]]
  /\ sphereArray = [buf |-> 0]
  /\ pipeline = [tag |-> [from |-> 0, scene |-> 0]]
  /\ userBG = [tag |-> [from |-> 0, scene |-> 0]]
  /\ frame = [drawn |-> FALSE]

\* ------------------------------------------------------------------------
\* SpecPack: one buildPrimitiveAcceleration call on a fresh pipeline
\* ------------------------------------------------------------------------
InitPack ==
  /\ storageBufferLimit \in StorageLimits
  /\ prims \in Scenes
  /\ pc = "idle"
  /\ acc = EmptyAcc
  /\ webRtxBlas = BlasResult("none", FALSE, 0, 0, << >>)
  /\ FallbackAbsent
  /\ RayTracingAbsent
  /\ PatchTraversalAbsent
  /\ ShaderAbsent
  /\ ConverterAbsent
  /\ RepackAbsent
  /\ HandleAbsent

\* the call runs to its await of buildAabbBlasNodes, to its return when there
\* is nothing to build a BVH over, or to the throw of validatePrimitiveRefTypes
BuildStart ==
  /\ pc = "idle"
  /\ LET a == PackPrimitives(prims)
     IN /\ acc' = a
        /\ pc' = IF a.threw THEN "threw" ELSE IF a.primitiveCount > 0 THEN "bvh" ELSE "done"
  /\ UNCHANGED <<storageBufferLimit, prims, webRtxBlas>>
  /\ UNCHANGED <<fbVars, rtVars, patchVars, kernelVars, convVars, repackVars, handleVars>>

\* buildAabbBlasNodes settles and the call runs to its return
BuildBvh ==
  /\ pc = "bvh"
  /\ \E name \in BlasOutcomeNames :
       LET b == BlasOutcome(name, acc.primitiveCount)
       IN /\ webRtxBlas' = b
          /\ acc' = FinishBuild(acc, b)
          /\ pc' = IF FinishBuild(acc, b).threw THEN "threw" ELSE "done"
  /\ UNCHANGED <<storageBufferLimit, prims>>
  /\ UNCHANGED <<fbVars, rtVars, patchVars, kernelVars, convVars, repackVars, handleVars>>

vars == <<packVars, fbVars, rtVars, patchVars, kernelVars, convVars, repackVars, handleVars>>

NextPack == BuildStart \/ BuildBvh

SpecPack == InitPack /\ [][NextPack]_vars

\* ------------------------------------------------------------------------
\* SpecFB: one fallback pipeline handle, from the moment runFallbackPipeline
\* returns it (pipeline.ts 1637-1768)
\* ------------------------------------------------------------------------
MaxCalls == 2
MaxInflight == 1

FBScenes ==
  { EmptyScene,
    ScenePrimitives(SpheresN(2), CylindersN(1), << >>, << >>, << >>, LinesN(1), << >>,
                    PlanesN(1), PatchesN(1)),
    [EmptyScene EXCEPT !.spheres = SpheresN(BulkSpheres), !.bezierPatches = PatchesN(2)] }

FBStorageLimits == {8, 576}
FBOutcomes == {"valid", "throws"}

\* the scenes a pipeline is started with
FBInitialScenes == {[EmptyScene EXCEPT !.spheres = SpheresN(1)]}

\* an updateAllPrimitives call suspended at its await: the accel its
\* buildPrimitiveAcceleration call packed before suspending
Suspended(accel) == [accel |-> accel]

\* the call never reaches buildAabbBlasNodes (1463), so it resumes in call order
ResumesInOrder(call) == call.accel.threw \/ call.accel.primitiveCount = 0

CanSettle(i) ==
  ResumesInOrder(pending[i]) => \A j \in 1..(i - 1) : ~ResumesInOrder(pending[j])

Without(s, i) == SubSeq(s, 1, i - 1) \o SubSeq(s, i + 1, Len(s))

\* the state in which runFallbackPipeline returns the handle: the first
\* updateAllPrimitives and rebuildComputeBindGroup have run (1637-1638)
StartsFrom(scene, accel, h) ==
  /\ ~accel.threw
  /\ currentScenePrimitives = scene
  /\ pending = << >>
  /\ calls = 0
  /\ HostIs(h)
  /\ inflight = << >>
  /\ applied = accel

InitFB ==
  /\ RayTracingAbsent
  /\ PatchTraversalAbsent
  /\ ShaderAbsent
  /\ ConverterAbsent
  /\ RepackAbsent
  /\ HandleAbsent
  /\ storageBufferLimit \in FBStorageLimits
  /\ prims = EmptyScene
  /\ pc = "idle"
  /\ acc = EmptyAcc
  /\ webRtxBlas = BlasResult("none", FALSE, 0, 0, << >>)
  /\ \E scene \in FBInitialScenes, name \in FBOutcomes :
       \E packed \in {PackPrimitives(scene)} :
         \E accel \in {FinishBuild(packed, BlasOutcome(name, packed.primitiveCount))} :
           \E h \in {rebuildComputeBindGroup(updateAllPrimitives(EmptyHost, accel))} :
             StartsFrom(scene, accel, h)

\* a setter has replaced the scene state and called updateAllPrimitives, which
\* packs and suspends
Calls(scene) ==
  /\ calls < MaxCalls
  /\ calls' = calls + 1
  /\ currentScenePrimitives' = scene
  /\ \E accel \in {PackPrimitives(scene)} : pending' = Append(pending, Suspended(accel))
  /\ UNCHANGED <<hostVars, inflight, applied>>
  /\ UNCHANGED <<packVars, rtVars, patchVars, kernelVars, convVars, repackVars, handleVars>>

setScene == \E desc \in FBScenes : Calls(desc)

\* a set<Kind> setter that drops the lists of the other kinds
SetKindAlone(kind, instances) == Calls([EmptyScene EXCEPT ![kind] = instances])

\* the set<Kind> setters (1706-1757): the list of one kind of the stored scene
\* is assigned, then updateAllPrimitives is called on the stored scene
SetKind(kind, instances) == Calls([currentScenePrimitives EXCEPT ![kind] = instances])

\* the instance lists the set<Kind> setters are called with
SetterInputs ==
  [spheres |-> {SpheresN(5)}, bezierPatches |-> {PatchesN(1)}]

setSpheres == \E instances \in SetterInputs.spheres : SetKind("spheres", instances)

setBezierPatches ==
  \E instances \in SetterInputs.bezierPatches : SetKind("bezierPatches", instances)

\* a suspended updateAllPrimitives call is rejected by the throw of its build
Rejects(i) ==
  /\ pending[i].accel.threw
  /\ pending' = Without(pending, i)
  /\ UNCHANGED <<currentScenePrimitives, calls, hostVars, inflight,
                 applied>>
  /\ UNCHANGED <<packVars, rtVars, patchVars, kernelVars, convVars, repackVars, handleVars>>

\* a suspended updateAllPrimitives call resumes with its accel and runs to its end
Applies(i, accel) ==
  /\ ~pending[i].accel.threw
  /\ pending' = Without(pending, i)
  /\ \E h \in {updateAllPrimitives(HostState, accel)} :
       /\ HostBecomes(h)
       /\ inflight' = [k \in 1..Len(inflight) |-> TouchedBy(inflight[k], HostState, h)]
  /\ applied' = accel
  /\ UNCHANGED <<currentScenePrimitives, calls>>
  /\ UNCHANGED <<packVars, rtVars, patchVars, kernelVars, convVars, repackVars, handleVars>>

Resumes ==
  \E i \in 1..Len(pending) :
    /\ CanSettle(i)
    /\ \/ Rejects(i)
       \/ /\ pending[i].accel.primitiveCount = 0
          /\ Applies(i, pending[i].accel)
       \/ /\ pending[i].accel.primitiveCount > 0
          /\ \E name \in FBOutcomes :
               \E accel \in {FinishBuild(pending[i].accel,
                                          BlasOutcome(name, pending[i].accel.primitiveCount))} :
                 Applies(i, accel)

\* render(): rebuilds a missing bind group, then records and submits the
\* compute dispatch unless something it needs is missing (1650-1690)
Submits(h) ==
  IF h.computeBindGroup.bound
  THEN /\ Len(inflight) < MaxInflight
       /\ inflight' = Append(inflight, InFlight(h.computeBindGroup))
  ELSE UNCHANGED inflight

render ==
  /\ \E h \in {IF computeBindGroup.bound THEN HostState
                ELSE rebuildComputeBindGroup(HostState)} :
       HostBecomes(h) /\ Submits(h)
  /\ UNCHANGED <<currentScenePrimitives, pending, calls, applied>>
  /\ UNCHANGED <<packVars, rtVars, patchVars, kernelVars, convVars, repackVars, handleVars>>

\* the GPU finishes the oldest dispatch in flight
GpuFinishes ==
  /\ Len(inflight) > 0
  /\ inflight' = Tail(inflight)
  /\ UNCHANGED <<currentScenePrimitives, pending, calls, hostVars, applied>>
  /\ UNCHANGED <<packVars, rtVars, patchVars, kernelVars, convVars, repackVars, handleVars>>

\* resize() to a non-zero size: configureCanvas re-creates the output texture
\* and rebuilds the bind group (1583-1598, 817-832)
resize ==
  /\ \E h \in {rebuildComputeBindGroup(HostState)} : HostBecomes(h)
  /\ UNCHANGED <<currentScenePrimitives, pending, calls, inflight, applied>>
  /\ UNCHANGED <<packVars, rtVars, patchVars, kernelVars, convVars, repackVars, handleVars>>

NextFB ==
  \/ setScene
  \/ setSpheres
  \/ setBezierPatches
  \/ Resumes
  \/ render
  \/ GpuFinishes
  \/ resize

SpecFB == InitFB /\ [][NextFB]_vars

\* ------------------------------------------------------------------------
\* SpecRT: one ray-tracing scene handle, from the moment createScene returns
\* it (scene.ts 797-1408)
\* ------------------------------------------------------------------------
MaxRebuilds == 2

\* scene.ts 40, 0.001
LINE_RADIUS == 10

\* the parameter defaults of createScene (scene.ts 372-412) as the scalar
\* fields of curr, one record per kind
DefaultParams ==
  [sphere |-> [center |-> ZeroVec, radius |-> 12000],
   cylinder |-> [center |-> <<18000, 0, 0>>, xdir |-> X, ydir |-> <<0, 0, -FX>>,
                 radius |-> 4000, height |-> 2 * FX, angleDeg |-> 360 * FX],
   circle |-> [center |-> <<-18000, 0, 0>>, xdir |-> X, ydir |-> Y, radius |-> 9000],
   ellipse |-> [center |-> <<-4 * FX, 0, 0>>, xdir |-> X, ydir |-> Y, rx |-> 9000, ry |-> 5000],
   cone |-> [center |-> <<0, -FX, -12000>>, xdir |-> X, ydir |-> Z, radius |-> 7000,
             height |-> 16000],
   torus |-> [center |-> <<4 * FX, 2000, 0>>, xdir |-> X, ydir |-> Y, majorR |-> 9000,
              minorR |-> 2500, angleDeg |-> 360 * FX],
   line |-> [p0 |-> <<-28000, 8000, -5000>>, p1 |-> <<-16000, 16000, -2000>>,
             radius |-> LINE_RADIUS],
   spheres |-> << >>, cylinders |-> << >>, circles |-> << >>, ellipses |-> << >>,
   cones |-> << >>, lines |-> << >>, tori |-> << >>, bezierPatches |-> << >>,
   version |-> 0]

RTSphereInputs == {SpheresN(2), <<Sphere(<<FX, 0, 0>>, -FX)>>}
RTPatchInputs == {<< >>, PatchesN(1)}
RTScenes ==
  { [EmptyScene EXCEPT !.spheres = SpheresN(1)],
    ScenePrimitives(SpheresN(2), CylindersN(1), CirclesN(1), EllipsesN(1), ConesN(1),
                    LinesN(1), ToriN(1), PlanesN(1), PatchesN(1)) }

\* which rebuild wrote a GPU object, and from which version of the scene state
Tag(from, scene) == [from |-> from, scene |-> scene]

NoFrame == [drawn |-> FALSE]

\* hasBezierPatches (scene.ts 949-951)
hasBezierPatches(c) == Len(c.bezierPatches) > 0

\* writeSphereArrayFromCurr (scene.ts 859-870): a larger buffer replaces the
\* handle when the list outgrows the capacity, then the list is written
SphereArrayBytes(c) == Len(ListOrSingle(c.spheres, c.sphere)) * 16

GrownFor(arr, bytes) ==
  IF arr.cap < bytes
    THEN [buf |-> Len(arr.contents) + 1, cap |-> Max2(bytes, 16),
          contents |-> Append(arr.contents, Tag(-1, -1))]
    ELSE arr

WrittenBy(arr, tag) == [arr EXCEPT !.contents[arr.buf] = tag]

writeSphereArrayFromCurr(arr, c, id) == WrittenBy(GrownFor(arr, SphereArrayBytes(c)), Tag(id, c.version))

\* createUserBG (scene.ts 1018-1037): the bind group captures the buffer
\* handles, the layout of the pipeline and the acceleration container
createUserBG(id, c, arr, pipe, accel) ==
  [tag |-> Tag(id, c.version), accel |-> accel.tag, sphereArrayBuf |-> arr.buf,
   layout |-> pipe.tag, bezierBound |-> hasBezierPatches(c)]

\* what one traceRays reads (scene.ts 1073-1088)
FrameOf(pipe, bg, metaBuf, arr) ==
  [drawn |-> TRUE, pipeline |-> pipe.tag, pipelineAccel |-> pipe.tlas, bindGroup |-> bg.tag,
   accel |-> bg.accel, meta |-> metaBuf.tag, params |-> arr.contents[bg.sphereArrayBuf]]

\* the tail of createScene: initial build, pipeline and bind group
\* (scene.ts 816-1038)
RtStartsFrom(c, built, arr, pipe, accel) ==
  /\ curr = c
  /\ currObject = 0
  /\ rebuilds = << >>
  /\ rebuildCount = 0
  /\ tlas = accel
  /\ sceneMetaBuf = [tag |-> Tag(0, 0), data |-> writeMeta(built.meta)]
  /\ sphereArray = arr
  /\ pipeline = pipe
  /\ userBG = createUserBG(0, c, arr, pipe, accel)
  /\ frame = NoFrame

InitRT ==
  /\ overrides \in [spheresOnly : BOOLEAN, includePlane : BOOLEAN]
  /\ \E patches \in RTPatchInputs :
       \E c \in {[DefaultParams EXCEPT !.bezierPatches = patches]} :
         \E built \in {buildAnalyticPrimitivesTLAS(c, overrides)} :
           RtStartsFrom(c, built,
                        writeSphereArrayFromCurr([buf |-> 1, cap |-> 16,
                                                  contents |-> <<Tag(-1, -1)>>], c, 0),
                        [tag |-> Tag(0, 0), tlas |-> Tag(0, 0),
                         useBezier |-> hasBezierPatches(c)],
                        [tag |-> Tag(0, 0), geometries |-> built.geometries])
  /\ storageBufferLimit = 0
  /\ prims = EmptyScene
  /\ pc = "idle"
  /\ acc = EmptyAcc
  /\ webRtxBlas = BlasResult("none", FALSE, 0, 0, << >>)
  /\ FallbackAbsent
  /\ PatchTraversalAbsent
  /\ ShaderAbsent
  /\ ConverterAbsent
  /\ RepackAbsent
  /\ HandleAbsent

\* a setter that assigns one list of the object curr refers to; the object is
\* also the argument p of every build still waiting for initBvhWasm that was
\* called on it.  The setter then calls rebuildTLAS, which suspends inside
\* buildAnalyticPrimitivesTLAS (scene_descriptor.ts 208)
SeenBy(rs, object, c) ==
  [i \in 1..Len(rs) |->
     IF rs[i].stage = "build" /\ rs[i].object = object THEN [rs[i] EXCEPT !.p = c] ELSE rs[i]]

NewRebuild(id, object, c) ==
  [id |-> id, stage |-> "build", object |-> object, p |-> c, tlas |-> Tag(-1, -1),
   useBezier |-> FALSE, scene |-> -1]

Assigns(c) ==
  /\ rebuildCount < MaxRebuilds
  /\ curr' = c
  /\ rebuildCount' = rebuildCount + 1
  /\ rebuilds' = Append(SeenBy(rebuilds, currObject, c),
                        NewRebuild(rebuildCount + 1, currObject, c))
  /\ UNCHANGED <<overrides, currObject, tlas, sceneMetaBuf, sphereArray, pipeline, userBG,
                 frame>>
  /\ UNCHANGED <<packVars, fbVars, patchVars, kernelVars, convVars, repackVars, handleVars>>

\* scene.ts 1240-1243
RtSetSpheres ==
  \E instances \in RTSphereInputs :
    Assigns([curr EXCEPT !.spheres = instances, !.version = rebuildCount + 1])

\* scene.ts 1293-1296
RtSetBezierPatches ==
  \E instances \in RTPatchInputs :
    Assigns([curr EXCEPT !.bezierPatches = instances, !.version = rebuildCount + 1])

\* the conversions of setScene (scene.ts 1320-1404)
First(list, field(_), old) == IF Len(list) > 0 THEN field(list[1]) ELSE old

SphereOf(s) == [center |-> s.center, radius |-> s.radius]
CylinderOf(c) ==
  [center |-> c.center, xdir |-> c.xdir, ydir |-> c.ydir, radius |-> c.radius,
   height |-> c.height, angleDeg |-> c.angleDeg]
CircleOf(c) == [center |-> c.center, xdir |-> c.xdir, ydir |-> c.ydir, radius |-> c.radius]
EllipseOf(e) ==
  [center |-> e.center, xdir |-> e.xdir, ydir |-> e.ydir, rx |-> e.radiusX, ry |-> e.radiusY]
ConeOf(c) ==
  [center |-> c.center, xdir |-> c.xdir, ydir |-> c.ydir, radius |-> c.radius,
   height |-> c.height]
LineOf(l) == [p0 |-> l.p0, p1 |-> l.p1, radius |-> l.radius]
TorusOf(t) ==
  [center |-> t.center, xdir |-> t.xdir, ydir |-> t.ydir, majorR |-> t.majorRadius,
   minorR |-> t.minorRadius, angleDeg |-> t.angleDeg]

Each(list, field(_)) == [i \in 1..Len(list) |-> field(list[i])]

SceneParams(scene, old, version) ==
  [sphere |-> First(scene.spheres, SphereOf, old.sphere),
   cylinder |-> First(scene.cylinders, CylinderOf, old.cylinder),
   circle |-> First(scene.circles, CircleOf, old.circle),
   ellipse |-> First(scene.ellipses, EllipseOf, old.ellipse),
   cone |-> First(scene.cones, ConeOf, old.cone),
   torus |-> First(scene.tori, TorusOf, old.torus),
   line |-> First(scene.lines, LineOf, old.line),
   spheres |-> Each(scene.spheres, SphereOf),
   cylinders |-> Each(scene.cylinders, CylinderOf),
   circles |-> Each(scene.circles, CircleOf),
   ellipses |-> Each(scene.ellipses, EllipseOf),
   cones |-> Each(scene.cones, ConeOf),
   lines |-> Each(scene.lines, LineOf),
   tori |-> Each(scene.tori, TorusOf),
   bezierPatches |-> scene.bezierPatches,
   version |-> version]

\* setScene (scene.ts 1320-1406) makes curr refer to a new object; builds
\* already waiting keep the object they were called with
RtSetScene ==
  /\ rebuildCount < MaxRebuilds
  /\ \E scene \in RTScenes :
       \E c \in {SceneParams(scene, curr, rebuildCount + 1)} :
         /\ curr' = c
         /\ rebuilds' = Append(rebuilds, NewRebuild(rebuildCount + 1, rebuildCount + 1, c))
  /\ currObject' = rebuildCount + 1
  /\ rebuildCount' = rebuildCount + 1
  /\ UNCHANGED <<overrides, tlas, sceneMetaBuf, sphereArray, pipeline, userBG, frame>>
  /\ UNCHANGED <<packVars, fbVars, patchVars, kernelVars, convVars, repackVars, handleVars>>

\* the waits on initBvhWasm settle in the order they began
NextToBuild(i) ==
  /\ rebuilds[i].stage = "build"
  /\ \A j \in 1..(i - 1) : rebuilds[j].stage # "build"

\* rebuildTLAS from the return of buildAnalyticPrimitivesTLAS to the await in
\* recreatePipeline (scene.ts 1054-1067, 964-984): the scene is packed from
\* the argument p, the arrays are written from curr, and
\* createRayTracingPipeline is called with the new container
Rebuilt(i, built, tag) ==
  /\ tlas' = [tag |-> tag, geometries |-> built.geometries]
  /\ sceneMetaBuf' = [tag |-> tag, data |-> writeMeta(built.meta)]
  /\ sphereArray' = writeSphereArrayFromCurr(sphereArray, curr, rebuilds[i].id)
  /\ rebuilds' = [rebuilds EXCEPT ![i] = [@ EXCEPT !.stage = "pipeline", !.tlas = tag,
                                            !.useBezier = hasBezierPatches(curr),
                                            !.scene = curr.version]]

rebuildTLAS ==
  /\ \E i \in 1..Len(rebuilds) :
       /\ NextToBuild(i)
       /\ \E built \in {buildAnalyticPrimitivesTLAS(rebuilds[i].p, overrides)} :
            Rebuilt(i, built, Tag(rebuilds[i].id, rebuilds[i].p.version))
  /\ UNCHANGED <<overrides, curr, currObject, rebuildCount, pipeline, userBG, frame>>
  /\ UNCHANGED <<packVars, fbVars, patchVars, kernelVars, convVars, repackVars, handleVars>>

\* createRayTracingPipeline settles (in whatever order the device finishes
\* them) and rebuildTLAS runs to its end (scene.ts 984-992, 1068-1071)
PipelineCreated(i, pipe) ==
  /\ pipeline' = pipe
  /\ userBG' = createUserBG(rebuilds[i].id, curr, sphereArray, pipe, tlas)
  /\ rebuilds' = Without(rebuilds, i)

recreatePipeline ==
  /\ \E i \in 1..Len(rebuilds) :
       /\ rebuilds[i].stage = "pipeline"
       /\ PipelineCreated(i, [tag |-> Tag(rebuilds[i].id, rebuilds[i].scene),
                              tlas |-> rebuilds[i].tlas,
                              useBezier |-> rebuilds[i].useBezier])
  /\ UNCHANGED <<overrides, curr, currObject, rebuildCount, tlas, sceneMetaBuf, sphereArray,
                 frame>>
  /\ UNCHANGED <<packVars, fbVars, patchVars, kernelVars, convVars, repackVars, handleVars>>

\* render (scene.ts 1073-1088), called by the frame loop or by a caller
RtRender ==
  /\ frame' = FrameOf(pipeline, userBG, sceneMetaBuf, sphereArray)
  /\ UNCHANGED <<overrides, curr, currObject, rebuilds, rebuildCount, tlas, sceneMetaBuf,
                 sphereArray, pipeline, userBG>>
  /\ UNCHANGED <<packVars, fbVars, patchVars, kernelVars, convVars, repackVars, handleVars>>

NextRT ==
  RtSetSpheres \/ RtSetBezierPatches \/ RtSetScene \/ rebuildTLAS \/ recreatePipeline \/ RtRender

SpecRT == InitRT /\ [][NextRT]_vars

\* ------------------------------------------------------------------------
\* One call of intersectBezierPatch as a state machine
\* ------------------------------------------------------------------------
\* a parallelogram patch: constant tangents and no twist
FlatPatch(p00, du, dv, depth, eps) ==
  [p00 |-> p00, p10 |-> addVec3(p00, du), p01 |-> addVec3(p00, dv),
   p11 |-> addVec3(addVec3(p00, du), dv),
   du00 |-> du, du10 |-> du, du01 |-> du, du11 |-> du,
   dv00 |-> dv, dv10 |-> dv, dv01 |-> dv, dv11 |-> dv,
   duv00 |-> ZeroVec, duv10 |-> ZeroVec, duv01 |-> ZeroVec, duv11 |-> ZeroVec,
   maxDepth |-> depth, pixelEpsilon |-> eps]

\* the tilted parallelogram traversed unevenly in u: the tangents vanish on
\* the edge u = 0, so that its halves in u are not half as long
UnevenPatch(depth, eps) ==
  [FlatPatch(ZeroVec, <<12000, 0, 6000>>, <<0, 12000, 0>>, depth, eps) EXCEPT
     !.du00 = ZeroVec, !.du01 = ZeroVec,
     !.du10 = <<36000, 0, 18000>>, !.du11 = <<36000, 0, 18000>>]

\* the patches handed to the shader: a tilted parallelogram at two settings
\* of maxDepth and pixelEpsilon and traversed unevenly, a curved patch, and
\* a patch degenerated to a segment of the diagonal
TracedPatches ==
  { convertHermitePatchToBezier(h) :
      h \in { FlatPatch(ZeroVec, <<12000, 0, 6000>>, <<0, 12000, 0>>, <<3 * FX>>, <<1>>),
              UnevenPatch(<<FX>>, <<1>>),
              FlatPatch(ZeroVec, <<12000, 0, 6000>>, <<0, 12000, 0>>, << >>, << >>),
              Patch(0, 2700, <<2 * FX>>, <<1>>),
              FlatPatch(ZeroVec, <<12000, 12000, 12000>>, <<12000, 12000, 12000>>,
                        <<3 * FX>>, <<1>>) } }

\* a ray along the diagonal, which meets the first corner of the tilted
\* patches, and a ray that crosses their plane just before the edge u = 0
\* and only then enters their bounds
DiagonalRay == [rayOrigin |-> <<-4000, -4000, -4000>>, rayDir |-> <<5774, 5774, 5774>>]

EarlyRay == [rayOrigin |-> <<-5600, 6000, -5300>>, rayDir |-> <<FX, 0, FX>>]

\* the rays: straight down onto the patches, down beside them, and along
\* the diagonal
TracedRays ==
  { [rayOrigin |-> <<3000, 6000, 20000>>, rayDir |-> <<0, 0, -FX>>],
    [rayOrigin |-> <<30000, 30000, 20000>>, rayDir |-> <<0, 0, -FX>>],
    DiagonalRay }

\* a ray that meets the edge u = 1 of the tilted patches at a slant and goes
\* on through the bounds of the half beside it
EdgeRay == [rayOrigin |-> <<16000, 3000, 10000>>, rayDir |-> <<-FX, 0, -FX>>]

\* the tilted patch split once
HalvedPatch ==
  convertHermitePatchToBezier(
    FlatPatch(ZeroVec, <<12000, 0, 6000>>, <<0, 12000, 0>>, <<FX>>, <<1>>))

\* the tilted patch with the default settings, whose root is a leaf
RootLeafPatch ==
  convertHermitePatchToBezier(
    FlatPatch(ZeroVec, <<12000, 0, 6000>>, <<0, 12000, 0>>, << >>, << >>))

\* a patch degenerated to a segment of the diagonal that only u moves
\* along, so that the two children on either side of a split in v coincide,
\* and a ray that leaves its first corner at a slant
DeepPatch ==
  convertHermitePatchToBezier(
    FlatPatch(ZeroVec, <<96000, 96000, 96000>>, ZeroVec, <<5 * FX>>, <<1>>))

SlantedRay == [rayOrigin |-> <<-1000, -1000, -500>>, rayDir |-> <<FX, FX, FX \div 2>>]

\* gl_RayTminEXT-like near distances and the far distances: INF as main
\* passes it (527), and a distance short of the patches
NearDistances == {100}
FarDistances == {INF, 15000}

Arguments(ray, tMin, tMax, patch) ==
  [rayOrigin |-> ray.rayOrigin, rayTMin |-> tMin, rayDir |-> ray.rayDir, rayTMax |-> tMax,
   patch |-> patch, pixelWorldSlope |-> 0]

\* the far distances at and just short of the point where DiagonalRay meets
\* the corner of the patch
CornerDistances == {6929, 6928}

TracedCalls ==
  { Arguments(ray, tMin, tMax, patch) :
      ray \in TracedRays, tMin \in NearDistances, tMax \in FarDistances,
      patch \in TracedPatches }
    \cup {Arguments(SlantedRay, tMin, INF, DeepPatch) : tMin \in NearDistances}
    \cup {Arguments(EarlyRay, tMin, INF, RootLeafPatch) : tMin \in NearDistances}
    \cup {Arguments(EdgeRay, tMin, INF, HalvedPatch) : tMin \in NearDistances}
    \cup {Arguments(DiagonalRay, tMin, tMax, RootLeafPatch) :
            tMin \in NearDistances, tMax \in CornerDistances}

InitPatch ==
  /\ args \in TracedCalls
  /\ at = "entry"
  /\ queue = << >>
  /\ node = NoNode
  /\ bestIdx = 0
  /\ bestT = 0
  /\ bestUV = <<0, 0>>
  /\ hasHit = FALSE
  /\ newton = NoNewton
  /\ hit = NoHit
  /\ storageBufferLimit = 0
  /\ prims = EmptyScene
  /\ pc = "idle"
  /\ acc = EmptyAcc
  /\ webRtxBlas = BlasResult("none", FALSE, 0, 0, << >>)
  /\ FallbackAbsent
  /\ RayTracingAbsent
  /\ ShaderAbsent
  /\ ConverterAbsent
  /\ RepackAbsent
  /\ HandleAbsent

\* the call up to its loop (289-317): a ray that misses the bounds of the
\* patch returns at once, otherwise the root is queued
Enters ==
  /\ at = "entry"
  /\ \E r \in {intersectAabbExt(args.patch.boundsMin, args.patch.boundsMax, args.rayOrigin,
                                makeSafeInverse(args.rayDir), args.rayTMin, args.rayTMax)} :
       IF r.hit
       THEN /\ bestT' = Min2(args.rayTMax, r.tExit)
            /\ queue' = <<BezierNode(args.patch.controlPoints, args.patch.boundsMin,
                                     args.patch.boundsMax, 0, 0, FX, FX, r.tEnter, 0)>>
            /\ at' = "loop"
       ELSE /\ at' = "returned"
            /\ UNCHANGED <<bestT, queue>>
  /\ UNCHANGED <<args, node, bestIdx, bestUV, hasHit, newton, hit>>
  /\ UNCHANGED <<packVars, fbVars, rtVars, kernelVars, convVars, repackVars, handleVars>>

\* the head of one loop iteration (318-328)
Pops(idx) ==
  /\ at = "loop"
  /\ Len(queue) > 0
  /\ idx = MinSlot(queue)
  /\ bestIdx' = idx
  /\ node' = queue[idx + 1]

\* 329-331
Discards ==
  /\ \E idx \in 0..(Len(queue) - 1) :
       /\ Pops(idx)
       /\ queue[idx + 1].tEnter >= bestT
       /\ queue' = RemoveSlot(queue, idx)
  /\ UNCHANGED <<args, at, bestT, bestUV, hasHit, newton, hit>>
  /\ UNCHANGED <<packVars, fbVars, rtVars, kernelVars, convVars, repackVars, handleVars>>

\* 332-343: a leaf starts newtonRefine from the middle of the node
TestsLeaf ==
  /\ \E idx \in 0..(Len(queue) - 1) :
       /\ Pops(idx)
       /\ queue[idx + 1].tEnter < bestT
       /\ IsLeaf(queue[idx + 1], args)
       /\ queue' = RemoveSlot(queue, idx)
       /\ newton' = [cp |-> queue[idx + 1].cp, tMin |-> args.rayTMin,
                     tMax |-> Min2(bestT, args.rayTMax), u |-> FX \div 2, v |-> FX \div 2,
                     t |-> clamp(queue[idx + 1].tEnter, args.rayTMin, bestT), iter |-> 0,
                     ret |-> "running"]
  /\ at' = "refine"
  /\ UNCHANGED <<args, bestT, bestUV, hasHit, hit>>
  /\ UNCHANGED <<packVars, fbVars, rtVars, kernelVars, convVars, repackVars, handleVars>>

\* one iteration of newtonRefine
Refines ==
  /\ at = "refine"
  /\ \E n \in {NewtonIteration(newton, args.rayOrigin, args.rayDir)} :
       /\ newton' = n
       /\ at' = IF n.ret = "running" THEN "refine" ELSE "refined"
  /\ UNCHANGED <<args, queue, node, bestIdx, bestT, bestUV, hasHit, hit>>
  /\ UNCHANGED <<packVars, fbVars, rtVars, kernelVars, convVars, repackVars, handleVars>>

\* every converged candidate taken
AcceptsConverged(t, a, best) == TRUE

\* the test on a converged candidate (344)
Accepts(t, a, best) == t >= a.rayTMin /\ t < best /\ t <= a.rayTMax

\* 343-352: newtonRefine has returned
Judges ==
  /\ at = "refined"
  /\ IF newton.ret = "true" /\ Accepts(newton.t, args, bestT)
     THEN /\ bestT' = newton.t
          /\ bestUV' = <<mix(node.u0, node.u1, clamp(newton.u, 0, FX)),
                         mix(node.v0, node.v1, clamp(newton.v, 0, FX))>>
          /\ hasHit' = TRUE
     ELSE UNCHANGED <<bestT, bestUV, hasHit>>
  /\ at' = "loop"
  /\ UNCHANGED <<args, queue, node, bestIdx, newton, hit>>
  /\ UNCHANGED <<packVars, fbVars, rtVars, kernelVars, convVars, repackVars, handleVars>>

\* 354-413: the node is split in four and the children the ray reaches
\* before farBound are queued
Subdivides ==
  /\ \E idx \in 0..(Len(queue) - 1) :
       /\ Pops(idx)
       /\ queue[idx + 1].tEnter < bestT
       /\ ~IsLeaf(queue[idx + 1], args)
       /\ \E c \in {subdivideBezierPatch(queue[idx + 1].cp)} :
            queue' = WithChildren(RemoveSlot(queue, idx), queue[idx + 1], args, c,
                                  FMul(FX \div 2, queue[idx + 1].u0 + queue[idx + 1].u1),
                                  FMul(FX \div 2, queue[idx + 1].v0 + queue[idx + 1].v1),
                                  Min2(bestT, args.rayTMax))
  /\ UNCHANGED <<args, at, bestT, bestUV, hasHit, newton, hit>>
  /\ UNCHANGED <<packVars, fbVars, rtVars, kernelVars, convVars, repackVars, handleVars>>

\* 415-420: the queue is empty
Returns ==
  /\ at = "loop"
  /\ Len(queue) = 0
  /\ hit' = IF hasHit /\ bestT < Min2(args.rayTMax, ALMOST_INF)
            THEN [hit |-> TRUE, hitT |-> bestT, hitUV |-> bestUV]
            ELSE NoHit
  /\ at' = "returned"
  /\ UNCHANGED <<args, queue, node, bestIdx, bestT, bestUV, hasHit, newton>>
  /\ UNCHANGED <<packVars, fbVars, rtVars, kernelVars, convVars, repackVars, handleVars>>

NextPatch == Enters \/ Discards \/ TestsLeaf \/ Refines \/ Judges \/ Subdivides \/ Returns

SpecPatch == InitPatch /\ [][NextPatch]_vars

\* the shader invocation keeps running until the call returns
SpecPatchLive == SpecPatch /\ WF_vars(NextPatch)

\* ------------------------------------------------------------------------
\* SpecShader: one invocation of the intersection shader's main() on a sphere
\* or a cylinder (analytic_shaders.ts 423-456)
\* ------------------------------------------------------------------------

\* a float product whose operands may exceed 4.6 (FMul would leave 32 bits)
WideMul(a, b) ==
  Sgn(a) * Sgn(b) * ((Abs(a) \div FX) * Abs(b) + ((Abs(a) % FX) * Abs(b)) \div FX)

dot(a, b) == WideMul(a[1], b[1]) + WideMul(a[2], b[2]) + WideMul(a[3], b[3])

\* sqrt of a non-negative float
sqrt(x) == IF x < 214748 THEN ISqrt(x * FX) ELSE ISqrt(x) * 100

\* degrees are kept on the same grid: 360 degrees is 360 * FX
Degrees(d) == d * FX

\* atan on [0, 1], in degrees: exact at 0 and at 1, within 0.3 degree between
AtanOctant(q) == 45 * q + (1564 * FMul(q, FX - q)) \div 100

AtanQuadrant(y, x) ==
  IF y <= x THEN AtanOctant(FDiv(y, x)) ELSE Degrees(90) - AtanOctant(FDiv(x, y))

\* degrees(atan(y, x)), then `if (ang < 0.0) ang += 360.0`; GLSL leaves
\* atan(0, 0) undefined, so every quadrant boundary is a possible outcome there
WrappedAzimuths(y, x) ==
  IF x = 0 /\ y = 0 THEN {Degrees(0), Degrees(90), Degrees(180), Degrees(270)}
  ELSE IF y >= 0
       THEN IF x >= 0 THEN {AtanQuadrant(y, x)}
            ELSE {Degrees(180) - AtanQuadrant(y, -x)}
       ELSE IF x >= 0 THEN {Degrees(360) - AtanQuadrant(-y, x)}
            ELSE {Degrees(180) + AtanQuadrant(-y, -x)}

\* the cylinder branch's set-up, lines 435-440
CylinderFrame(g, r) ==
  LET xdir == normalizeVec3(g.xdir)
      yIn == normalizeVec3(subtractVec3(g.ydir, scaleVec3(xdir, dot(g.ydir, xdir))))
      crossed == normalizeVec3(crossVec3(xdir, yIn))
      axis == IF hypot(crossed) < 1 THEN <<0, FX, 0>> ELSE crossed
      roW == subtractVec3(r.ro, g.center)
      roZ == dot(roW, axis)
      rdZ == dot(r.rd, axis)
  IN [xdir |-> xdir, yIn |-> yIn, axis |-> axis,
      radius |-> g.radius, halfH |-> g.height \div 2, angleDeg |-> g.angleDeg,
      roZ |-> roZ, rdZ |-> rdZ,
      roXY |-> subtractVec3(roW, scaleVec3(axis, roZ)),
      rdXY |-> subtractVec3(r.rd, scaleVec3(axis, rdZ)),
      nearT |-> r.nearT]

\* pLocal = roXY + rdXY * t
PLocal(f, t) == addVec3(f.roXY, scaleVec3(f.rdXY, t))

\* the azimuth the shader compares with angleDeg: atan(pLocal.y, pLocal.x)
ShaderAzimuths(f, t) == WrappedAzimuths(PLocal(f, t)[2], PLocal(f, t)[1])

\* `angleDeg < 360.0 && ang > angleDeg`
OutsideSweep(f, ang) == f.angleDeg < Degrees(360) /\ ang > f.angleDeg

\* the two roots of the lateral quadratic, lines 442-446 (<< >> when none)
SideCandidates(f) ==
  LET a == dot(f.rdXY, f.rdXY)
      b == 2 * dot(f.roXY, f.rdXY)
      cc == dot(f.roXY, f.roXY) - WideMul(f.radius, f.radius)
      disc == WideMul(b, b) - 4 * WideMul(a, cc)
  IN IF a > 0 /\ disc >= 0
     THEN << WideMul(-b - sqrt(disc), FDiv(FX \div 2, a)),
             WideMul(-b + sqrt(disc), FDiv(FX \div 2, a)) >>
     ELSE << >>

\* one iteration of the loop over cand[], lines 447-449 (EPS = 1e-5 is below
\* one unit of the grid)
SideStep(f, best, tt, ang) ==
  IF tt < f.nearT \/ tt >= best.bestT THEN best
  ELSE IF \/ f.roZ + WideMul(tt, f.rdZ) < -f.halfH
          \/ f.roZ + WideMul(tt, f.rdZ) > f.halfH THEN best
  ELSE IF OutsideSweep(f, ang) THEN best
  ELSE [bestT |-> tt, bestKind |-> 0]

\* one end-cap test, lines 453 and 454: plane z = capZ, bestKind = kind
CapStep(f, best, capZ, kind, ang) ==
  LET tCap == FDiv(capZ - f.roZ, f.rdZ)
  IN IF ~(tCap >= f.nearT /\ tCap < best.bestT) THEN best
     ELSE IF ~(dot(PLocal(f, tCap), PLocal(f, tCap)) <= WideMul(f.radius, f.radius)) THEN best
     ELSE IF OutsideSweep(f, ang) THEN best
     ELSE [bestT |-> tCap, bestKind |-> kind]

CapT(f, capZ) == IF f.rdZ = 0 THEN 0 ELSE FDiv(capZ - f.roZ, f.rdZ)

\* the sphere branch without the preference for the nearer root
SphereReportFar(g, r) ==
  LET oc == subtractVec3(r.ro, g.center)
      b == dot(oc, r.rd)
      disc == WideMul(b, b) - (dot(oc, oc) - WideMul(g.radius, g.radius))
      tt == -b + sqrt(disc)
  IN IF disc >= 0 /\ tt >= r.nearT /\ tt < INF THEN [hit |-> TRUE, t |-> tt] ELSE NoReport

\* the sphere branch, line 431
SphereReport(g, r) ==
  LET oc == subtractVec3(r.ro, g.center)
      b == dot(oc, r.rd)
      c2 == dot(oc, oc) - WideMul(g.radius, g.radius)
      disc == WideMul(b, b) - c2
      t0 == -b - sqrt(disc)
      t1 == -b + sqrt(disc)
      tt == IF t0 < r.nearT THEN t1 ELSE t0
  IN IF disc >= 0 /\ tt >= r.nearT /\ tt < INF THEN [hit |-> TRUE, t |-> tt] ELSE NoReport

\* --- the invocations examined
UnitSphere == [kind |-> "sphere", center |-> <<0, 0, 0>>, radius |-> FX]
OffsetSphere == [kind |-> "sphere", center |-> <<0, 0, 3 * FX>>, radius |-> 2 * FX]

ShadedCylinder(xdir, ydir, angle) ==
  [kind |-> "cylinder", center |-> <<0, 0, 0>>, xdir |-> xdir, ydir |-> ydir,
   radius |-> FX, height |-> 2 * FX, angleDeg |-> Degrees(angle)]

\* the sweep angles of the cylinders examined
SweepAngles == {180, 360, 90}

\* xdir, ydir pairs: the world axes, the same turned a quarter about z, and a
\* cylinder lying with its axis along world -y
Orientations ==
  { << <<FX, 0, 0>>, <<0, FX, 0>> >>,
    << <<0, FX, 0>>, <<-FX, 0, 0>> >>,
    << <<FX, 0, 0>>, <<0, 0, FX>> >> }

ShadedGeometries ==
  {UnitSphere, OffsetSphere}
    \cup {ShadedCylinder(o[1], o[2], s) : o \in Orientations, s \in SweepAngles}

\* cam.c3.z
NearT == 10

Ray(ro, rd) == [ro |-> ro, rd |-> rd, nearT |-> NearT]

ShadedRays ==
  { Ray(<<0, 0, 5 * FX>>, <<0, 0, -FX>>),
    Ray(<<0, 0, 0>>, <<0, 0, -FX>>),
    Ray(<<0, 0, -5 * FX>>, <<0, 0, -FX>>),
    Ray(<<2 * FX, 0, 0>>, <<-FX, 0, 0>>),
    Ray(<<-2 * FX, 0, 0>>, <<FX, 0, 0>>),
    Ray(<<0, 2 * FX, 0>>, <<0, -FX, 0>>),
    Ray(<<0, -2 * FX, 0>>, <<0, FX, 0>>),
    Ray(<<5000, 5000, 2 * FX>>, <<0, 0, -FX>>),
    Ray(<<5000, -5000, 2 * FX>>, <<0, 0, -FX>>),
    Ray(<<-5000, -5000, -2 * FX>>, <<0, 0, FX>>),
    Ray(<<2 * FX, 0, 5 * FX>>, <<0, 0, -FX>>) }

InitShader ==
  /\ geometry \in ShadedGeometries
  /\ worldRay \in ShadedRays
  /\ shaderAt = "entry"
  /\ closest = [bestT |-> INF, bestKind |-> -1]
  /\ reported = NoReport
  /\ storageBufferLimit = 0
  /\ prims = EmptyScene
  /\ pc = "idle"
  /\ acc = EmptyAcc
  /\ webRtxBlas = BlasResult("none", FALSE, 0, 0, << >>)
  /\ FallbackAbsent
  /\ RayTracingAbsent
  /\ PatchTraversalAbsent
  /\ ConverterAbsent
  /\ RepackAbsent
  /\ HandleAbsent

\* gid in the sphere range: the whole sphere branch
IntersectsSphere ==
  /\ shaderAt = "entry"
  /\ geometry.kind = "sphere"
  /\ reported' = SphereReport(geometry, worldRay)
  /\ shaderAt' = "done"
  /\ UNCHANGED <<geometry, worldRay, closest>>
  /\ UNCHANGED <<packVars, fbVars, rtVars, patchVars, convVars, repackVars, handleVars>>

\* gid in the cylinder range: set-up and the lateral surface, lines 433-451
TestsSide ==
  /\ shaderAt = "entry"
  /\ geometry.kind = "cylinder"
  /\ \E f \in {CylinderFrame(geometry, worldRay)} :
       \E cand \in {SideCandidates(f)} :
         IF cand = << >>
         THEN closest' = closest
         ELSE \E ang0 \in ShaderAzimuths(f, cand[1]), ang1 \in ShaderAzimuths(f, cand[2]) :
                closest' = SideStep(f, SideStep(f, closest, cand[1], ang0), cand[2], ang1)
  /\ shaderAt' = "caps"
  /\ UNCHANGED <<geometry, worldRay, reported>>
  /\ UNCHANGED <<packVars, fbVars, rtVars, patchVars, convVars, repackVars, handleVars>>

\* the two end caps, lines 452-455 (1e-7 is below one unit of the grid)
TestsCaps ==
  /\ shaderAt = "caps"
  /\ \E f \in {CylinderFrame(geometry, worldRay)} :
       IF Abs(f.rdZ) > 0
       THEN \E angTop \in ShaderAzimuths(f, CapT(f, f.halfH)),
               angBot \in ShaderAzimuths(f, CapT(f, -f.halfH)) :
              closest' = CapStep(f, CapStep(f, closest, f.halfH, 1, angTop), -f.halfH, 2, angBot)
       ELSE closest' = closest
  /\ shaderAt' = "report"
  /\ UNCHANGED <<geometry, worldRay, reported>>
  /\ UNCHANGED <<packVars, fbVars, rtVars, patchVars, convVars, repackVars, handleVars>>

\* line 456
ReportsCylinder ==
  /\ shaderAt = "report"
  /\ reported' = IF closest.bestKind >= 0 /\ closest.bestT < INF
                 THEN [hit |-> TRUE, t |-> closest.bestT]
                 ELSE NoReport
  /\ shaderAt' = "done"
  /\ UNCHANGED <<geometry, worldRay, closest>>
  /\ UNCHANGED <<packVars, fbVars, rtVars, patchVars, convVars, repackVars, handleVars>>

NextShader == IntersectsSphere \/ TestsSide \/ TestsCaps \/ ReportsCylinder

SpecShader == InitShader /\ [][NextShader]_vars

\* ------------------------------------------------------------------------
\* SpecConvert: one call of convertHermitePatchToBezier (bezier_patch.ts
\* 24-98) on a patch whose components are IEEE doubles, finite or not
\* ------------------------------------------------------------------------
Fin(n) == [k |-> "fin", v |-> n]
NaN == [k |-> "nan", v |-> 0]
Infinity(s) == [k |-> "inf", v |-> s]

\* the largest magnitude a finite component holds; sums beyond it overflow
LargestFloat == 2 ^ 27

isFinite(x) == x.k = "fin"

Rounded(n) == IF Abs(n) > LargestFloat THEN Infinity(Sgn(n)) ELSE Fin(n)

\* x + y
Plus(x, y) ==
  IF x.k = "nan" \/ y.k = "nan" THEN NaN
  ELSE IF x.k = "inf" THEN (IF y.k = "inf" /\ y.v # x.v THEN NaN ELSE x)
  ELSE IF y.k = "inf" THEN y
  ELSE Rounded(x.v + y.v)

\* x * (m / 3) for a matrix entry m / 3
Times(x, m) ==
  IF x.k = "nan" THEN NaN
  ELSE IF x.k = "inf" THEN (IF m = 0 THEN NaN ELSE Infinity(x.v * Sgn(m)))
  ELSE Fin(MulThirds(x.v, m))

\* x < y (false whenever a NaN is involved)
Less(x, y) ==
  IF x.k = "nan" \/ y.k = "nan" THEN FALSE
  ELSE IF x.k = "inf" THEN x.v < 0 /\ ~(y.k = "inf" /\ y.v < 0)
  ELSE IF y.k = "inf" THEN y.v > 0
  ELSE x.v < y.v

\* an absent vector is << >>
toVec3(value) == IF value = << >> THEN <<Fin(0), Fin(0), Fin(0)>> ELSE value

\* sanitizeVec3 without its test
NotSanitized(v) == v

sanitizeVec3(v) == [a \in 1..3 |-> IF isFinite(v[a]) THEN v[a] ELSE Fin(0)]

AddScaled(sum, v, m) == [a \in 1..3 |-> Plus(sum[a], Times(v[a], m))]

\* the k-loop of either matrix product
ScaledSum(vs, ms) ==
  AddScaled(AddScaled(AddScaled(AddScaled(<<Fin(0), Fin(0), Fin(0)>>, vs[1], ms[1]),
                                vs[2], ms[2]), vs[3], ms[3]), vs[4], ms[4])

HermiteGrid(patch) ==
  << <<toVec3(patch.p00), toVec3(patch.p01), toVec3(patch.dv00), toVec3(patch.dv01)>>,
     <<toVec3(patch.p10), toVec3(patch.p11), toVec3(patch.dv10), toVec3(patch.dv11)>>,
     <<toVec3(patch.du00), toVec3(patch.du01), toVec3(patch.duv00), toVec3(patch.duv01)>>,
     <<toVec3(patch.du10), toVec3(patch.du11), toVec3(patch.duv10), toVec3(patch.duv11)>> >>

LeftProduct(matrix, data) ==
  [i \in 1..4 |-> [j \in 1..4 |->
     ScaledSum(<<data[1][j], data[2][j], data[3][j], data[4][j]>>, matrix[i])]]

RightProduct(data, matrix) ==
  [i \in 1..4 |-> [j \in 1..4 |-> ScaledSum(data[i], matrix[j])]]

\* the u / vIdx loop, lines 87-98: point n (row-major) is sanitized, pushed and
\* folded into the running bounds
RECURSIVE SanitizeLoop(_, _, _)
SanitizeLoop(bezier, n, sofar) ==
  IF n > 16 THEN sofar
  ELSE LET point == sanitizeVec3(bezier[((n - 1) \div 4) + 1][((n - 1) % 4) + 1])
       IN SanitizeLoop(bezier, n + 1,
            [returned |-> TRUE,
             controlPoints |-> Append(sofar.controlPoints, point),
             boundsMin |-> [a \in 1..3 |-> IF Less(point[a], sofar.boundsMin[a])
                                           THEN point[a] ELSE sofar.boundsMin[a]],
             boundsMax |-> [a \in 1..3 |-> IF Less(sofar.boundsMax[a], point[a])
                                           THEN point[a] ELSE sofar.boundsMax[a]]])

ConvertHermitePatch(patch) ==
  LET bezier == RightProduct(LeftProduct(HERMITE_TO_BEZIER_X3, HermiteGrid(patch)),
                             HERMITE_TO_BEZIER_X3)
  IN SanitizeLoop(bezier, 1,
       [returned |-> TRUE, controlPoints |-> << >>,
        boundsMin |-> sanitizeVec3(bezier[1][1]),
        boundsMax |-> sanitizeVec3(bezier[1][1])])

\* --- the patches converted
FinVec(x, y, z) == <<Fin(x), Fin(y), Fin(z)>>

SoundPatch ==
  [p00 |-> FinVec(0, 0, 0), p01 |-> FinVec(0, 9, 0),
   p10 |-> FinVec(9, 0, 0), p11 |-> FinVec(9, 9, 9),
   du00 |-> FinVec(9, 0, 0), du01 |-> FinVec(9, 0, 9),
   du10 |-> FinVec(9, 0, 0), du11 |-> FinVec(9, 0, 9),
   dv00 |-> FinVec(0, 9, 0), dv01 |-> FinVec(0, 9, 0),
   dv10 |-> FinVec(0, 9, 9), dv11 |-> FinVec(0, 9, 9),
   duv00 |-> FinVec(0, 0, 0), duv01 |-> FinVec(0, 0, 0),
   duv10 |-> FinVec(0, 0, 0), duv11 |-> FinVec(0, 0, 18)]

PatchFields ==
  {"p00", "p01", "p10", "p11", "du00", "du01", "du10", "du11",
   "dv00", "dv01", "dv10", "dv11", "duv00", "duv01", "duv10", "duv11"}

\* corrupted authoring data: NaN, either infinity, an absent vector and
\* components so large that the sums overflow
CorruptVectors ==
  { <<NaN, Fin(9), Fin(0)>>,
    <<Infinity(1), Fin(0), Fin(9)>>,
    <<Fin(0), Infinity(-1), NaN>>,
    << >>,
    <<Fin(LargestFloat), Fin(-LargestFloat), Fin(9)>> }

ConvertedPatches ==
  {SoundPatch}
    \cup {[SoundPatch EXCEPT ![f] = c] : f \in PatchFields, c \in CorruptVectors}
    \cup {[SoundPatch EXCEPT !["p00"] = <<Infinity(1), Fin(0), Fin(0)>>,
                             !["dv00"] = <<Infinity(-1), Fin(0), Fin(0)>>],
          [SoundPatch EXCEPT !["p11"] = <<Fin(LargestFloat), Fin(0), Fin(0)>>,
                             !["du11"] = <<Fin(-LargestFloat), Fin(0), Fin(0)>>]}

InitConvert ==
  /\ hermite \in ConvertedPatches
  /\ conversion = NoConversion
  /\ storageBufferLimit = 0
  /\ prims = EmptyScene
  /\ pc = "idle"
  /\ acc = EmptyAcc
  /\ webRtxBlas = BlasResult("none", FALSE, 0, 0, << >>)
  /\ FallbackAbsent
  /\ RayTracingAbsent
  /\ PatchTraversalAbsent
  /\ ShaderAbsent
  /\ RepackAbsent
  /\ HandleAbsent

Converts ==
  /\ ~conversion.returned
  /\ conversion' = ConvertHermitePatch(hermite)
  /\ UNCHANGED hermite
  /\ UNCHANGED <<packVars, fbVars, rtVars, patchVars, kernelVars, repackVars, handleVars>>

NextConvert == Converts

SpecConvert == InitConvert /\ [][NextConvert]_vars

\* ------------------------------------------------------------------------
\* SpecRepack: buildPrimitiveAcceleration (pipeline.ts 965-1122) and
\* buildAnalyticPrimitivesTLAS (scene_descriptor.ts 207-253) called again on
\* a scene nothing has changed
\* ------------------------------------------------------------------------
\* how often each path packs the scene
Repeats == 2

PackingsOf(path) == SelectSeq(packings, LAMBDA e : e.path = path)

RepackedParams ==
  { DefaultParams,
    SceneParams(ScenePrimitives(SpheresN(2), CylindersN(1), CirclesN(1), EllipsesN(1),
                                ConesN(1), LinesN(1), ToriN(1), PlanesN(1), PatchesN(1)),
                DefaultParams, 1) }

InitRepack ==
  /\ storageBufferLimit \in StorageLimits
  /\ prims \in Scenes
  /\ pc = "idle"
  /\ acc = EmptyAcc
  /\ webRtxBlas = BlasResult("none", FALSE, 0, 0, << >>)
  /\ packedParams \in RepackedParams
  /\ packings = << >>
  /\ overrides \in {[spheresOnly |-> FALSE, includePlane |-> TRUE],
                    [spheresOnly |-> TRUE, includePlane |-> FALSE]}
  /\ curr = [version |-> 0]
  /\ currObject = 0
  /\ rebuilds = << >>
  /\ rebuildCount = 0
  /\ tlas = [tag |-> [from |-> 0, scene |-> 0], geometries |-> << >>]
  /\ sceneMetaBuf = [tag |-> [from |-> 0, scene |-> 0]]
  /\ sphereArray = [buf |-> 0]
  /\ pipeline = [tag |-> [from |-> 0, scene |-> 0]]
  /\ userBG = [tag |-> [from |-> 0, scene |-> 0]]
  /\ frame = [drawn |-> FALSE]
  /\ FallbackAbsent
  /\ PatchTraversalAbsent
  /\ ShaderAbsent
  /\ ConverterAbsent
  /\ HandleAbsent

\* the fallback path packs prims: counts, AABBs, references and parameters
PacksFallback ==
  /\ Len(PackingsOf("fallback")) < Repeats
  /\ packings' = Append(packings, [path |-> "fallback", out |-> PackPrimitives(prims)])
  /\ UNCHANGED packedParams
  /\ UNCHANGED <<packVars, fbVars, rtVars, patchVars, kernelVars, convVars, handleVars>>

\* the ray-tracing path packs packedParams under the global overrides
PacksRayTracing ==
  /\ Len(PackingsOf("raytracing")) < Repeats
  /\ packings' = Append(packings, [path |-> "raytracing",
                                   out |-> buildAnalyticPrimitivesTLAS(packedParams, overrides)])
  /\ UNCHANGED packedParams
  /\ UNCHANGED <<packVars, fbVars, rtVars, patchVars, kernelVars, convVars, handleVars>>

NextRepack == PacksFallback \/ PacksRayTracing

SpecRepack == InitRepack /\ [][NextRepack]_vars

\* ------------------------------------------------------------------------
\* SpecHandle: the handle runSharedScene returns (scene.ts 1583-1745) over a
\* fallback renderer (pipeline.ts 1644-1769) and a ray-tracing renderer
\* (scene.ts 1073-1406), both created and with their resources in place
\* ------------------------------------------------------------------------
\* how many submits per renderer are followed
MaxFrames == 1

Pose(pos, look, up) == [pos |-> pos, look |-> look, up |-> up]

\* Math.abs(v[i]) < 1e-5 on every axis
isZeroVec(v) == Abs(v[1]) < 1 /\ Abs(v[2]) < 1 /\ Abs(v[3]) < 1

\* normalizeVec3 (pipeline.ts 605-612) for camera distances, which exceed the
\* range hypot covers
unitVec3(v) ==
  IF sqrt(dot(v, v)) < 1 THEN ZeroVec
  ELSE <<FDiv(v[1], sqrt(dot(v, v))), FDiv(v[2], sqrt(dot(v, v))),
         FDiv(v[3], sqrt(dot(v, v)))>>

OrElse(v, fallbackVec) == IF isZeroVec(v) THEN fallbackVec ELSE v

\* pipeline.ts 749-757: the pose and projection written to the camera uniform
\* (tanHalfFov is kept as the angle it is computed from)
flushCameraPose(c) ==
  [c EXCEPT !.uniform = [position |-> c.position, forward |-> c.forward, right |-> c.right,
                         up |-> c.up, fovY |-> c.fovY, near |-> c.near, far |-> c.far]]

\* pipeline.ts 776-801
FallbackRight(forwardDir, upDir) ==
  unitVec3(OrElse(crossVec3(forwardDir, upDir),
                       crossVec3(forwardDir, IF Abs(forwardDir[2]) > 9000 THEN <<0, 0, FX>>
                                             ELSE <<0, FX, 0>>)))

FallbackUp(rightDir, forwardDir) ==
  IF isZeroVec(crossVec3(rightDir, forwardDir)) THEN <<0, FX, 0>>
  ELSE unitVec3(crossVec3(rightDir, forwardDir))

Oriented(c, pos, forwardDir, rightDir) ==
  flushCameraPose([c EXCEPT !.position = pos, !.forward = forwardDir, !.right = rightDir,
                            !.up = FallbackUp(rightDir, forwardDir)])

updateCameraOrientation(c, p) ==
  Oriented(c, p.pos,
           OrElse(unitVec3(subtractVec3(p.look, p.pos)), <<0, 0, -FX>>),
           FallbackRight(OrElse(unitVec3(subtractVec3(p.look, p.pos)), <<0, 0, -FX>>),
                         OrElse(unitVec3(p.up), <<0, FX, 0>>)))

\* pipeline.ts 1692-1696; angles are whole degrees
FallbackFovY(c, deg) == flushCameraPose([c EXCEPT !.fovY = Max2(1, Min2(179, deg))])

\* pipeline.ts 1697-1702, eps = 1e-3
FallbackNearFar(c, near, far) ==
  flushCameraPose([c EXCEPT !.near = Max2(10, Min2(near, far - 10)),
                            !.far = Max2(Max2(10, Min2(near, far - 10)) + 10, far)])

\* scene.ts 510-517
writeCamera(b, pos, look, up) == [b EXCEPT !.data = [pos |-> pos, look |-> look, up |-> up,
                                                      fov |-> b.fov, near |-> b.near,
                                                      far |-> b.far]]

StartPose == Pose(<<0, 0, 3 * FX>>, <<0, 0, 0>>, <<0, FX, 0>>)

\* scene.ts 1196
RtUpdateCamera(b, p) == writeCamera(b, p.pos, p.look, p.up)

\* scene.ts 1197
RtSetCameraFovY(b, deg) ==
  writeCamera([b EXCEPT !.fov = deg], StartPose.pos, StartPose.look, StartPose.up)

\* scene.ts 1198
RtSetCameraNearFar(b, n, f) ==
  writeCamera([b EXCEPT !.near = n, !.far = f], StartPose.pos, StartPose.look, StartPose.up)

\* scene.ts 192-256
buildFallbackSceneDescriptor(config) ==
  ScenePrimitives(
    <<Sphere(config.sphere.center, config.sphere.radius)>>,
    <<Cylinder(config.cylinder.center, config.cylinder.radius, config.cylinder.height,
               orthonormalizePair(config.cylinder.xdir, config.cylinder.ydir)[1],
               orthonormalizePair(config.cylinder.xdir, config.cylinder.ydir)[2],
               config.cylinder.angleDeg)>>,
    <<Circle(config.circle.center, config.circle.radius,
             orthonormalizePair(config.circle.xdir, config.circle.ydir)[1],
             orthonormalizePair(config.circle.xdir, config.circle.ydir)[2])>>,
    <<Ellipse(config.ellipse.center, config.ellipse.rx, config.ellipse.ry,
              orthonormalizePair(config.ellipse.xdir, config.ellipse.ydir)[1],
              orthonormalizePair(config.ellipse.xdir, config.ellipse.ydir)[2])>>,
    <<Cone(config.cone.center, config.cone.radius, config.cone.height,
           orthonormalizePair(config.cone.xdir, config.cone.ydir)[1],
           orthonormalizePair(config.cone.xdir, config.cone.ydir)[2])>>,
    <<Line(config.line.p0, config.line.p1, LINE_RADIUS)>>,
    <<Torus(config.torus.center, config.torus.majorR, config.torus.minorR,
            orthonormalizePair(config.torus.xdir, config.torus.ydir)[1],
            orthonormalizePair(config.torus.xdir, config.torus.ydir)[2],
            config.torus.angleDeg)>>,
    PlanesN(1),
    config.bezierPatches)

\* --- the calls made on the handle
SharedScenes ==
  { ScenePrimitives(SpheresN(2), CylindersN(1), CirclesN(1), EllipsesN(1), ConesN(1),
                    LinesN(1), ToriN(1), PlanesN(1), << >>),
    [EmptyScene EXCEPT !.spheres = SpheresN(1)] }

SharedSphereInputs == {SpheresN(3)}

CameraPoses == {Pose(<<3 * FX, 0, 4 * FX>>, <<0, 0, 0>>, <<0, FX, 0>>)}

FovInputs == {45}

NearFarInputs == {<<5000, 100 * FX>>}

InitHandle ==
  /\ current = "raytracing"
  /\ held = [fallback |-> buildFallbackSceneDescriptor(DefaultParams),
             raytracing |-> DefaultParams]
  /\ fallbackCamera =
       updateCameraOrientation([position |-> <<0, 0, 5 * FX>>, forward |-> <<0, 0, -FX>>,
                                right |-> <<FX, 0, 0>>, up |-> <<0, FX, 0>>, fovY |-> 60,
                                near |-> 1000, far |-> 10000 * FX, uniform |-> << >>],
                               Pose(<<0, 0, 5 * FX>>, <<0, 0, 0>>, <<0, FX, 0>>))
  /\ cameraBuf = writeCamera([fov |-> 60, near |-> 1, far |-> 1000 * FX, data |-> << >>],
                             StartPose.pos, StartPose.look, StartPose.up)
  /\ requested = [fallback |-> << >>, raytracing |-> << >>]
  /\ stopped = FALSE
  /\ rafId = TRUE
  /\ gpuWork = [fallback |-> << >>, raytracing |-> << >>]
  /\ storageBufferLimit = 0
  /\ prims = EmptyScene
  /\ pc = "idle"
  /\ acc = EmptyAcc
  /\ webRtxBlas = BlasResult("none", FALSE, 0, 0, << >>)
  /\ FallbackAbsent
  /\ RayTracingAbsent
  /\ PatchTraversalAbsent
  /\ ShaderAbsent
  /\ ConverterAbsent
  /\ RepackAbsent

Others == <<packVars, fbVars, rtVars, patchVars, kernelVars, convVars, repackVars>>

\* setSceneAll (scene.ts 1677-1686): both renderers' setScene, awaited together
setSceneAll ==
  /\ \E scene \in SharedScenes :
       held' = [fallback |-> scene,
                raytracing |-> SceneParams(scene, held.raytracing, 0)]
  /\ UNCHANGED <<current, fallbackCamera, cameraBuf, requested, stopped, rafId, gpuWork>>
  /\ UNCHANGED Others

\* setSpheres: callCurrentAsync forwards to the active renderer only
\* (scene.ts 1698-1708, 1740; pipeline.ts 1723-1726; scene.ts 1240-1243)
SharedSetSpheres ==
  /\ \E instances \in SharedSphereInputs :
       held' = [held EXCEPT ![current] = [@ EXCEPT !.spheres = instances]]
  /\ UNCHANGED <<current, fallbackCamera, cameraBuf, requested, stopped, rafId, gpuWork>>
  /\ UNCHANGED Others

\* scene.ts 1687-1697, both renderers present
switchActive ==
  /\ \E renderer \in {"fallback", "raytracing"} : current' = renderer
  /\ UNCHANGED <<held, fallbackCamera, cameraBuf, requested, stopped, rafId, gpuWork>>
  /\ UNCHANGED Others

updateCamera ==
  /\ \E p \in CameraPoses :
       /\ requested' = [requested EXCEPT ![current] = p]
       /\ IF current = "fallback"
          THEN fallbackCamera' = updateCameraOrientation(fallbackCamera, p)
               /\ UNCHANGED cameraBuf
          ELSE cameraBuf' = RtUpdateCamera(cameraBuf, p) /\ UNCHANGED fallbackCamera
  /\ UNCHANGED <<current, held, stopped, rafId, gpuWork>>
  /\ UNCHANGED Others

setCameraFovY ==
  /\ \E deg \in FovInputs :
       IF current = "fallback"
       THEN fallbackCamera' = FallbackFovY(fallbackCamera, deg) /\ UNCHANGED cameraBuf
       ELSE cameraBuf' = RtSetCameraFovY(cameraBuf, deg) /\ UNCHANGED fallbackCamera
  /\ UNCHANGED <<current, held, requested, stopped, rafId, gpuWork>>
  /\ UNCHANGED Others

setCameraNearFar ==
  /\ \E nf \in NearFarInputs :
       IF current = "fallback"
       THEN fallbackCamera' = FallbackNearFar(fallbackCamera, nf[1], nf[2])
            /\ UNCHANGED cameraBuf
       ELSE cameraBuf' = RtSetCameraNearFar(cameraBuf, nf[1], nf[2])
            /\ UNCHANGED fallbackCamera
  /\ UNCHANGED <<current, held, requested, stopped, rafId, gpuWork>>
  /\ UNCHANGED Others

\* does render() of the renderer reach device.queue.submit?
\* pipeline.ts 1650-1653 returns early once stopped; scene.ts 1073-1088 has no test
RenderSubmits(renderer) == renderer = "raytracing" \/ ~stopped

\* one device.queue.submit, with who made it and whether stop() had been
\* called on the handle by then
Submitted(caller) == [by |-> caller, afterStop |-> stopped]

\* render() through the handle
SharedRender ==
  /\ Len(gpuWork[current]) < MaxFrames
  /\ gpuWork' = IF RenderSubmits(current)
                THEN [gpuWork EXCEPT ![current] = Append(@, Submitted("render"))]
                ELSE gpuWork
  /\ UNCHANGED <<current, held, fallbackCamera, cameraBuf, requested, stopped, rafId>>
  /\ UNCHANGED Others

\* the requestAnimationFrame callback of the ray-tracing renderer
\* (scene.ts 1152-1173): renders and requests the next frame
AnimationFrame ==
  /\ rafId
  /\ Len(gpuWork.raytracing) < MaxFrames
  /\ gpuWork' = [gpuWork EXCEPT !.raytracing = Append(@, Submitted("frame"))]
  /\ UNCHANGED <<current, held, fallbackCamera, cameraBuf, requested, stopped, rafId>>
  /\ UNCHANGED Others

\* stopAll (scene.ts 1709-1716): pipeline.ts 1763-1766 and scene.ts 1174
stopAll ==
  /\ stopped' = TRUE
  /\ rafId' = FALSE
  /\ UNCHANGED <<current, held, fallbackCamera, cameraBuf, requested, gpuWork>>
  /\ UNCHANGED Others

NextHandle ==
  \/ setSceneAll
  \/ SharedSetSpheres
  \/ switchActive
  \/ updateCamera
  \/ setCameraFovY
  \/ setCameraNearFar
  \/ SharedRender
  \/ AnimationFrame
  \/ stopAll

SpecHandle == InitHandle /\ [][NextHandle]_vars



\* ------------------------------------------------------------------------
\* Properties of one build (SpecPack)
\* ------------------------------------------------------------------------
Produced == pc \in {"bvh", "done"}

RefType(a, g) == a.primitiveRefs[g * PRIMITIVE_REF_UINTS + 1]
RefIndex(a, g) == a.primitiveRefs[g * PRIMITIVE_REF_UINTS + 2]
RefOffset(a, g) == a.primitiveRefs[g * PRIMITIVE_REF_UINTS + 3]
AabbMin(a, g) == SubSeq(a.aabbData, g * 6 + 1, g * 6 + 3)
AabbMax(a, g) == SubSeq(a.aabbData, g * 6 + 4, g * 6 + 6)

\* the input list a PrimitiveRef type selects
KindList(p, t) ==
  CASE t = PRIM_TYPE_SPHERE -> p.spheres
    [] t = PRIM_TYPE_CYLINDER -> p.cylinders
    [] t = PRIM_TYPE_CIRCLE -> p.circles
    [] t = PRIM_TYPE_ELLIPSE -> p.ellipses
    [] t = PRIM_TYPE_CONE -> p.cones
    [] t = PRIM_TYPE_LINE -> p.lines
    [] t = PRIM_TYPE_TORUS -> p.tori
    [] t = PRIM_TYPE_PLANE -> p.planes
    [] OTHER -> p.bezierPatches

\* what packing one instance of type t yields
PackOf(t, inst) ==
  CASE t = PRIM_TYPE_SPHERE -> PackSphere(inst)
    [] t = PRIM_TYPE_CYLINDER -> PackCylinder(inst)
    [] t = PRIM_TYPE_CIRCLE -> PackCircle(inst)
    [] t = PRIM_TYPE_ELLIPSE -> PackEllipse(inst)
    [] t = PRIM_TYPE_CONE -> PackCone(inst)
    [] t = PRIM_TYPE_LINE -> PackLine(inst)
    [] t = PRIM_TYPE_TORUS -> PackTorus(inst)
    [] t = PRIM_TYPE_PLANE -> PackPlane(inst)
    [] OTHER -> PackBezier(inst)

\* the parameter record a reference (t, i, o) addresses
ParamRecord(a, t, i, o) ==
  CASE t = PRIM_TYPE_SPHERE -> SubSeq(a.sphereData, i * SPHERE_FLOATS + 1, (i + 1) * SPHERE_FLOATS)
    [] t = PRIM_TYPE_BEZIER_PATCH ->
         SubSeq(a.bezierData, i * BEZIER_FLOATS + 1, (i + 1) * BEZIER_FLOATS)
    [] OTHER -> SubSeq(a.analyticData, (o + i) * ANALYTIC_FLOATS + 1,
                       (o + i + 1) * ANALYTIC_FLOATS)

SlotAgrees(p, a, g) ==
  /\ RefType(a, g) \in 0..8
  /\ RefIndex(a, g) < Len(KindList(p, RefType(a, g)))
  /\ AabbMin(a, g) = PackOf(RefType(a, g), KindList(p, RefType(a, g))[RefIndex(a, g) + 1]).min
  /\ AabbMax(a, g) = PackOf(RefType(a, g), KindList(p, RefType(a, g))[RefIndex(a, g) + 1]).max
  /\ ParamRecord(a, RefType(a, g), RefIndex(a, g), RefOffset(a, g))
       = PackOf(RefType(a, g), KindList(p, RefType(a, g))[RefIndex(a, g) + 1]).data

RefsOfType(a, t) == {g \in 0..(a.primitiveCount - 1) : RefType(a, g) = t}

\* C1: in every build the packing step produces, each geometry index g has its
\* AABB slot, its PrimitiveRef slot and the parameter record the reference
\* addresses all taken from one input instance, no two indices share an
\* instance, and each type has as many references as its published count.
C1_SlotsAgree ==
  Produced =>
    /\ Len(acc.aabbData) = acc.primitiveCount * 6
    /\ Len(acc.primitiveRefs) = acc.primitiveCount * PRIMITIVE_REF_UINTS
    /\ \A g \in 0..(acc.primitiveCount - 1) : SlotAgrees(prims, acc, g)
    /\ \A g, h \in 0..(acc.primitiveCount - 1) :
         (RefType(acc, g) = RefType(acc, h) /\ RefIndex(acc, g) = RefIndex(acc, h)) => g = h
    /\ \A i \in 1..9 : Cardinality(RefsOfType(acc, TypeOf[Kinds[i]])) = acc.counts[Kinds[i]]

\* a finished build that holds every kind of primitive
C1_Witness == pc = "done" /\ \A i \in 1..9 : acc.counts[Kinds[i]] >= 2

\* a finished build that was truncated by the limits and still holds analytic records
C1_WitnessTruncated ==
  /\ pc = "done"
  /\ acc.primitiveCount = maxPrimitiveRefs
  /\ acc.counts.cylinder > 0
  /\ acc.counts.cylinder < Len(prims.cylinders) + Len(prims.circles)

\* where the records of type t start in analyticData
AnalyticStartOf(c, t) ==
  CASE t = PRIM_TYPE_CYLINDER -> analyticStartCylinder(c)
    [] t = PRIM_TYPE_CIRCLE -> analyticStartCircle(c)
    [] t = PRIM_TYPE_ELLIPSE -> analyticStartEllipse(c)
    [] t = PRIM_TYPE_CONE -> analyticStartCone(c)
    [] t = PRIM_TYPE_LINE -> analyticStartLine(c)
    [] t = PRIM_TYPE_TORUS -> analyticStartTorus(c)
    [] t = PRIM_TYPE_PLANE -> analyticStartPlane(c)
    [] OTHER -> 0

\* C12: in every build the packing step produces, each kind keeps a prefix
\* of its input list: parameter slot i of the kind holds the record of the
\* i-th input instance, for every i below the kind's published count, and
\* the references of one kind appear in input order.
C12_SlotHoldsIthInstance ==
  Produced =>
    /\ \A k \in 1..9 :
         /\ acc.counts[Kinds[k]] <= Len(KindList(prims, TypeOf[Kinds[k]]))
         /\ \A i \in 0..(acc.counts[Kinds[k]] - 1) :
              ParamRecord(acc, TypeOf[Kinds[k]], i, AnalyticStartOf(acc.counts, TypeOf[Kinds[k]]))
                = PackOf(TypeOf[Kinds[k]], KindList(prims, TypeOf[Kinds[k]])[i + 1]).data
    /\ \A g, h \in 0..(acc.primitiveCount - 1) :
         (g < h /\ RefType(acc, g) = RefType(acc, h)) => RefIndex(acc, g) < RefIndex(acc, h)

\* a finished build in which the limits cut the spheres to a proper,
\* non-empty prefix
C12_Witness ==
  /\ pc = "done"
  /\ acc.counts.sphere > 1
  /\ acc.counts.sphere < Len(prims.spheres)
  /\ acc.primitiveCount = acc.counts.sphere

\* the input list of a kind named as in PrimitiveCounts
InputOf(p, kind) == KindList(p, TypeOf[kind])

\* C13: after the truncation stages of a build, a kind has lost an instance
\* only if every kind before it in reduceOrder has no instance left.
C13_LowestPriorityFirst ==
  Produced =>
    \A k \in 1..Len(reduceOrder) :
      acc.counts[reduceOrder[k]] < Len(InputOf(prims, reduceOrder[k])) =>
        \A j \in 1..(k - 1) : acc.counts[reduceOrder[j]] = 0

\* a build whose analytic stage dropped every plane while the patches, first
\* in reduceOrder, were all kept
C13_Counterexample ==
  /\ pc = "done"
  /\ acc.counts.plane < Len(prims.planes)
  /\ acc.counts.bezier > 0
  /\ acc.counts.bezier = Len(prims.bezierPatches)

\* C3: whatever the scene and the storage limit, the packing step truncates
\* and returns: buildPrimitiveAcceleration never throws.
C3_NeverThrows == pc # "threw"

\* the sizes the packing code reads from an instance of type t are all positive
SizesPositive(t, inst) ==
  CASE t = PRIM_TYPE_SPHERE -> inst.radius > 0
    [] t = PRIM_TYPE_CYLINDER -> inst.radius > 0 /\ inst.height > 0
    [] t = PRIM_TYPE_CIRCLE -> inst.radius > 0
    [] t = PRIM_TYPE_ELLIPSE -> inst.radiusX > 0 /\ inst.radiusY > 0
    [] t = PRIM_TYPE_CONE -> inst.radius > 0 /\ inst.height > 0
    [] t = PRIM_TYPE_LINE -> inst.radius > 0
    [] t = PRIM_TYPE_TORUS -> inst.majorRadius > 0 /\ inst.minorRadius > 0
    [] t = PRIM_TYPE_PLANE -> inst.halfWidth > 0 /\ inst.halfHeight > 0
    [] OTHER -> TRUE

\* C5: an instance whose size parameter is zero or negative is left out of the
\* packed output: no geometry index of a build refers to such an instance.
C5_DegenerateDropped ==
  Produced =>
    \A g \in 0..(acc.primitiveCount - 1) :
      SizesPositive(RefType(acc, g), KindList(prims, RefType(acc, g))[RefIndex(acc, g) + 1])

\* |v| = 1 and a . b = 0 up to three units of the fixed-point grid
IsUnit(v) == Abs(hypot(v) - FX) <= 3
IsOrthogonal(a, b) == Abs(dotVec3(a, b)) <= 3

OrientedTypes ==
  {PRIM_TYPE_CYLINDER, PRIM_TYPE_CIRCLE, PRIM_TYPE_ELLIPSE, PRIM_TYPE_CONE,
   PRIM_TYPE_TORUS, PRIM_TYPE_PLANE}

StoredXdir(rec) == <<rec[5], rec[6], rec[7]>>
StoredYdir(rec) == <<rec[9], rec[10], rec[11]>>

\* C6: every oriented primitive is stored with a unit xdir, a unit ydir and
\* dot(xdir, ydir) = 0, whatever pair the instance supplied.
C6_BasisOrthonormal ==
  Produced =>
    \A g \in 0..(acc.primitiveCount - 1) :
      RefType(acc, g) \in OrientedTypes =>
        /\ IsUnit(StoredXdir(ParamRecord(acc, RefType(acc, g), RefIndex(acc, g), RefOffset(acc, g))))
        /\ IsUnit(StoredYdir(ParamRecord(acc, RefType(acc, g), RefIndex(acc, g), RefOffset(acc, g))))
        /\ IsOrthogonal(
             StoredXdir(ParamRecord(acc, RefType(acc, g), RefIndex(acc, g), RefOffset(acc, g))),
             StoredYdir(ParamRecord(acc, RefType(acc, g), RefIndex(acc, g), RefOffset(acc, g))))

\* buildAabbBlasNodes threw, delivered no nodes, delivered nodes the conversion
\* rejects, or delivered more nodes than the storage limit holds
BuilderFailed(b, primitiveCount) ==
  \/ b.throws
  \/ b.nodeCount <= 0
  \/ b.byteLength <= 0
  \/ b.byteLength % b.nodeCount # 0
  \/ b.byteLength \div b.nodeCount < 44
  \/ \E i \in 1..b.nodeCount :
       /\ b.nodes[i].geometryId >= 0
       /\ ~(b.nodes[i].geometryId < primitiveCount)
       /\ ~(b.nodes[i].entry >= 0 /\ b.nodes[i].entry < primitiveCount)
  \/ b.nodeCount * BVH_NODE_BYTES > storageBufferLimit

\* C8: when the BVH builder fails in any of these ways the build still returns,
\* with node count 0 and the identity index list over all primitiveCount
\* primitives.
C8_LinearFallback ==
  (webRtxBlas.outcome # "none" /\ BuilderFailed(webRtxBlas, acc.primitiveCount)) =>
    /\ pc = "done"
    /\ acc.nodeCount = 0
    /\ acc.nodes = << >>
    /\ acc.indices = [i \in 1..acc.primitiveCount |-> i - 1]

\* the builder delivered a well-formed tree that exceeds the storage limit
C8_Witness ==
  /\ pc = "done"
  /\ webRtxBlas.outcome = "valid"
  /\ acc.primitiveCount >= 2
  /\ BuilderFailed(webRtxBlas, acc.primitiveCount)

\* ------------------------------------------------------------------------
\* Properties of the fallback handle (SpecFB)
\* ------------------------------------------------------------------------
\* what a build hands to each storage
BuildData(build) ==
  [sphere |-> build.sphereData, analytic |-> build.analyticData, bezier |-> build.bezierData,
   primitiveRef |-> build.primitiveRefs, primitiveIndex |-> build.indices,
   primitiveBvh |-> build.nodes]

\* a dispatch submitted in host state h reads the counts of `build` from the
\* uniform and the data of `build` from live buffers through its bind group
DispatchFromBuild(h, build) ==
  /\ h.computeBindGroup.bound
  /\ h.cameraUniformBuffer = flushCameraUniform(build.primitiveCount, build.nodeCount,
                                                build.counts)
  /\ BoundBuffers(h.computeBindGroup) \cap h.destroyed = {}
  /\ \A i \in 1..6 :
       /\ h.computeBindGroup[StorageNames[i]] \in 1..Len(h.gpuBuffers)
       /\ Len(h.gpuBuffers[h.computeBindGroup[StorageNames[i]]])
            >= Len(BuildData(build)[StorageNames[i]])
       /\ SubSeq(h.gpuBuffers[h.computeBindGroup[StorageNames[i]]], 1,
                 Len(BuildData(build)[StorageNames[i]]))
            = BuildData(build)[StorageNames[i]]

\* C9: every compute dispatch render() submits reads counts, parameter,
\* PrimitiveRef, index and BVH buffers and a bind group that all belong to the
\* build of the latest updateAllPrimitives call that ran to its end; calls
\* still suspended at the BVH builder leave no trace in what it reads.
C9_DispatchFromOneBuild ==
  [][Len(inflight') > Len(inflight) => DispatchFromBuild(HostState, applied)']_vars

\* a dispatch in flight that was submitted after a swap re-created buffers and
\* while another build was suspended
C9_Witness ==
  /\ Len(inflight) > 0
  /\ ~inflight[Len(inflight)].uniformOverwritten
  /\ inflight[Len(inflight)].bindGroup = computeBindGroup
  /\ Len(pending) > 0
  /\ destroyed # {}

\* C10: while a dispatch is in flight no scene update calls destroy() on, or
\* uploads into, a buffer that dispatch is bound to.
C10_InFlightUntouched ==
  \A k \in 1..Len(inflight) :
    /\ inflight[k].destroyedBound = {}
    /\ inflight[k].overwritten = {}
    /\ ~inflight[k].uniformOverwritten

\* the live buffer of every storage holds, in full, what the build last
\* applied hands to that storage
FullyUploaded ==
  \A i \in 1..6 :
    /\ storages[StorageNames[i]].buffer \in 1..Len(gpuBuffers)
    /\ Len(gpuBuffers[storages[StorageNames[i]].buffer])
         >= Len(BuildData(applied)[StorageNames[i]])
    /\ SubSeq(gpuBuffers[storages[StorageNames[i]].buffer], 1,
              Len(BuildData(applied)[StorageNames[i]]))
         = BuildData(applied)[StorageNames[i]]

SceneFields == DOMAIN EmptyScene

\* C11: a set<Kind> call assigns the list of that kind only, leaves the list
\* of every other kind of the stored scene as it was, and packs the whole
\* stored scene; every update that is applied rewrites all six storages from
\* its build, never one kind alone.
C11_SetKindRepacksAll ==
  [][/\ \A kind \in DOMAIN SetterInputs :
          \A instances \in SetterInputs[kind] :
            SetKind(kind, instances) =>
              /\ currentScenePrimitives'[kind] = instances
              /\ \A other \in SceneFields \ {kind} :
                   currentScenePrimitives'[other] = currentScenePrimitives[other]
              /\ pending'[Len(pending')].accel = PackPrimitives(currentScenePrimitives')
     /\ FullyUploaded']_vars

\* setSpheres after a setScene with several kinds, both applied: the spheres
\* are the new ones and the other kinds of the scene are still packed
C11_Witness ==
  /\ currentScenePrimitives.spheres = SpheresN(5)
  /\ Len(currentScenePrimitives.cylinders) > 0
  /\ pending = << >>
  /\ applied.counts.sphere = 5
  /\ applied.counts.cylinder = 1
  /\ applied.counts.bezier = 1
  /\ FullyUploaded

\* the capacity, in elements, of a buffer created with the given byte size
CapacityOf(n, size) == Len(FreshContent(n, size))

\* the buffer a storage record names holds as many elements as it was created
\* with
CapacityKept(n) ==
  storages[n].buffer # NoBuffer =>
    /\ storages[n].buffer \in 1..Len(gpuBuffers)
    /\ Len(gpuBuffers[storages[n].buffer]) = CapacityOf(n, storages[n].size)

\* C14: no step changes the capacity of an existing storage buffer; a
\* storage whose buffer is smaller than the rebuild requires names a new
\* buffer afterwards; and what the latest rebuild wrote fits the buffer it
\* was written to.
C14_CapacityFixed ==
  [][/\ Len(gpuBuffers') >= Len(gpuBuffers)
     /\ \A h \in 1..Len(gpuBuffers) : Len(gpuBuffers'[h]) = Len(gpuBuffers[h])
     /\ \A i \in 1..6 :
          /\ CapacityKept(StorageNames[i])'
          /\ Len(Uploads(applied')[StorageNames[i]])
               <= CapacityOf(StorageNames[i], storages'[StorageNames[i]].size)
          /\ (applied' # applied
                /\ storages[StorageNames[i]].size < RequiredOf(HostState')[StorageNames[i]]) =>
               /\ storages'[StorageNames[i]].buffer > Len(gpuBuffers)
               /\ storages'[StorageNames[i]].size = RequiredOf(HostState')[StorageNames[i]]]_vars

\* a rebuild has replaced the sphere buffer by a larger one and kept the
\* bezier buffer it found
C14_Witness ==
  /\ storages.sphere.buffer > 6
  /\ storages.bezier.buffer \in 1..6
  /\ applied.counts.sphere = 5
  /\ CapacityOf("sphere", storages.sphere.size) >= Len(applied.sphereData)
  /\ 1 \in destroyed
  /\ Len(gpuBuffers[storages.sphere.buffer]) > Len(gpuBuffers[1])

\* a build over no primitive: nothing packed, no node, no index, no throw
EmptyStructure(accel) ==
  /\ ~accel.threw
  /\ accel.primitiveCount = 0
  /\ accel.nodeCount = 0
  /\ accel.nodes = << >>
  /\ accel.indices = << >>
  /\ accel.primitiveRefs = << >>

\* the update that applied the build left six live buffers that hold what it
\* uploaded, counters of zero and a bind group over those buffers
UpdatedForEmpty ==
  /\ primitiveCountValue = 0
  /\ primitiveIndexCountValue = 0
  /\ primitiveBvhNodeCountValue = 0
  /\ cameraUniformBuffer = flushCameraUniform(0, 0, applied.counts)
  /\ \A i \in 1..6 :
       /\ storages[StorageNames[i]].buffer \in 1..Len(gpuBuffers)
       /\ storages[StorageNames[i]].buffer \notin destroyed
       /\ Len(Uploads(applied)[StorageNames[i]])
            <= CapacityOf(StorageNames[i], storages[StorageNames[i]].size)
       /\ SubSeq(gpuBuffers[storages[StorageNames[i]].buffer], 1,
                 Len(Uploads(applied)[StorageNames[i]])) = Uploads(applied)[StorageNames[i]]
  /\ computeBindGroup = BindGroupOf(storages)

\* C15: a build whose primitive count is zero is an empty structure that
\* never went through a BVH build and did not throw; the update that applies
\* it completes, and a render() after it submits a dispatch over the buffers
\* of that update.
C15_EmptyBuildCompletes ==
  [][/\ \A i \in 1..Len(pending') :
          pending'[i].accel.primitiveCount = 0 => EmptyStructure(pending'[i].accel)
     /\ applied'.primitiveCount = 0 =>
          /\ EmptyStructure(applied')
          /\ UpdatedForEmpty'
          /\ (render /\ Len(inflight) < MaxInflight) =>
               inflight' = Append(inflight, InFlight(BindGroupOf(storages')))]_vars

\* everything was truncated away by the limit, the empty build has been
\* applied and a dispatch over it is in flight
C15_Witness ==
  /\ storageBufferLimit = 8
  /\ Len(currentScenePrimitives.spheres) > 0
  /\ pending = << >>
  /\ calls > 0
  /\ applied.primitiveCount = 0
  /\ UpdatedForEmpty
  /\ Len(inflight) > 0
  /\ inflight[Len(inflight)].bindGroup = computeBindGroup

\* ------------------------------------------------------------------------
\* Properties of the ray-tracing handle (SpecRT)
\* ------------------------------------------------------------------------
Ordered(box) == \A k \in 1..3 : box.min[k] <= box.max[k]

\* C2: once a rebuild has run to its end, the branch chain of the shader set
\* it chose sends every geometry index g of the container it built to the
\* kernel of the kind packed at g, with slot g minus that kind's base
C2_RoutedToPackedKind ==
  pipeline.tag.from = tlas.tag.from =>
    \A g \in 0..(Len(tlas.geometries) - 1) :
      Route(sceneMetaBuf.data, g, pipeline.useBezier)
        = Kernel(tlas.geometries[g + 1].kind, tlas.geometries[g + 1].slot)

\* C4: every frame uses an acceleration structure, scene metadata, parameter
\* buffers, pipeline and bind group written by one rebuild from one version
\* of the scene state
C4_FrameFromOneRebuild ==
  frame.drawn =>
    /\ frame.accel = frame.pipeline
    /\ frame.pipelineAccel = frame.pipeline
    /\ frame.meta = frame.pipeline
    /\ frame.params = frame.pipeline
    /\ frame.bindGroup = frame.pipeline

\* C7: every AABB in the container of the ray-tracing path has min <= max on
\* each axis (the boxes of the fallback path are those of acc.aabbs)
C7_AabbOrdered == \A g \in 1..Len(tlas.geometries) : Ordered(tlas.geometries[g])


----------------------------------------------------------------------------
\* Properties of the patch traversal

\* how many of the four children of node n the ray reaches before farBound
SurvivingChildren(n, a, farBound) ==
  Cardinality(UNION {{k \in 1..4 : ChildTest(c[k], a, farBound).hit} :
                       c \in {subdivideBezierPatch(n.cp)}})

\* the step pops a node that is neither discarded nor a leaf
SubdividesPopped ==
  /\ at = "loop"
  /\ Len(queue) > 0
  /\ node'.tEnter < bestT
  /\ ~IsLeaf(node', args)

\* the queued nodes that are children of node n
QueuedChildrenOf(n) ==
  {i \in 1..Len(queue) :
     /\ queue[i].depth = n.depth + 1
     /\ queue[i].u0 >= n.u0 /\ queue[i].u1 <= n.u1
     /\ queue[i].v0 >= n.v0 /\ queue[i].v1 <= n.v1}

\* C16: the queue never holds more than BEZIER_MAX_QUEUE nodes, the slot a pop
\* overwrites and the slots a subdivision fills lie in [0, BEZIER_MAX_QUEUE),
\* and a subdivision appends its surviving children only while the queue is
\* below BEZIER_MAX_QUEUE and goes on with the loop
C16_QueueWithinSlots ==
  [][/\ Len(queue') <= BEZIER_MAX_QUEUE
     /\ (at = "loop" /\ Len(queue) > 0) =>
           /\ bestIdx' \in 0..(BEZIER_MAX_QUEUE - 1)
           /\ bestIdx' < Len(queue)
     /\ SubdividesPopped =>
           /\ Len(queue') = Min2(BEZIER_MAX_QUEUE,
                                 Len(queue) - 1
                                   + SurvivingChildren(node', args, Min2(bestT, args.rayTMax)))
           /\ SubSeq(queue', 1, Len(queue) - 1) = RemoveSlot(queue, bestIdx')
           /\ at' = "loop"]_vars

\* a subdivision has just filled the queue and left a surviving child out
C16_Witness ==
  /\ at = "loop"
  /\ node.depth >= 0
  /\ node.tEnter < bestT
  /\ ~IsLeaf(node, args)
  /\ Len(queue) = BEZIER_MAX_QUEUE
  /\ Cardinality(QueuedChildrenOf(node))
       < SurvivingChildren(node, args, Min2(bestT, args.rayTMax))

\* C17: no queued node is deeper than the configured maximum, a popped node
\* at the maximum depth that is not discarded goes to the leaf test and adds
\* no node to the queue, and every call returns, with its queue empty
C17_Terminates ==
  /\ [](\A i \in 1..Len(queue) : queue[i].depth <= MaxDepthOf(args.patch))
  /\ [][(/\ at = "loop"
          /\ Len(queue) > 0
          /\ node'.depth >= MaxDepthOf(args.patch)
          /\ node'.tEnter < bestT) =>
            /\ at' = "refine"
            /\ queue' = RemoveSlot(queue, bestIdx')]_vars
  /\ <>(at = "returned" /\ queue = << >>)

\* a call has returned whose last leaf was a leaf by its depth alone
C17_Witness ==
  /\ at = "returned"
  /\ queue = << >>
  /\ node.depth = MaxDepthOf(args.patch)
  /\ ~IsLeafBySize(node, args)
  /\ newton.ret = "false"

\* C18: a pop takes a node whose tEnter no queued node is below and removes
\* it from the queue, and a popped node with tEnter >= bestT is dropped: the
\* loop goes on with no leaf test, no change of the best hit and nothing
\* added to the queue
C18_PopsNearest ==
  [][(at = "loop" /\ Len(queue) > 0) =>
       /\ node' = queue[bestIdx' + 1]
       /\ \A i \in 1..Len(queue) : queue[i].tEnter >= node'.tEnter
       /\ SubSeq(queue', 1, Len(queue) - 1) = RemoveSlot(queue, bestIdx')
       /\ (node'.tEnter >= bestT) =>
             /\ queue' = RemoveSlot(queue, bestIdx')
             /\ at' = "loop"
             /\ UNCHANGED <<newton, bestT, bestUV, hasHit>>]_vars

\* after a hit, a node the ray enters behind the hit has been popped and
\* dropped
C18_Witness ==
  /\ at = "loop"
  /\ hasHit
  /\ node.depth > 0
  /\ node.tEnter > bestT
  /\ newton.ret = "true"
  /\ newton.cp # node.cp

\* C19: when newtonRefine has returned true, its t becomes the best hit if
\* rayTMin <= t < bestT and t <= rayTMax, and otherwise the best hit is left
\* as it is; no other step changes the best hit, so that bestT never grows
\* after the entry, and a reported hit is the best hit and lies within
\* [rayTMin, rayTMax]
C19_BestOnlyImproves ==
  /\ [][/\ (at = "refined" /\ newton.ret = "true") =>
              IF args.rayTMin <= newton.t /\ newton.t < bestT /\ newton.t <= args.rayTMax
              THEN bestT' = newton.t /\ hasHit'
              ELSE UNCHANGED <<bestT, bestUV, hasHit>>
        /\ (at = "refined" /\ newton.ret # "true") => UNCHANGED <<bestT, bestUV, hasHit>>
        /\ (at # "refined" /\ at # "entry") => UNCHANGED <<bestT, bestUV, hasHit>>
        /\ (at # "entry") => bestT' <= bestT]_vars
  /\ [](hit.hit =>
          /\ hasHit
          /\ hit.hitT = bestT
          /\ args.rayTMin <= hit.hitT /\ hit.hitT <= args.rayTMax)

\* a call has reported the hit newtonRefine converged to in a leaf below the
\* root, nearer than the far end of the bounds
C19_Witness ==
  /\ at = "returned"
  /\ hit.hit
  /\ node.depth > 0
  /\ newton.ret = "true"
  /\ hit.hitT = newton.t
  /\ hit.hitT < args.rayTMax

\* the determinant of the linear system newtonRefine solves at its point
DeterminantAt(n, rayDir) ==
  Only({ dotVec3(e.dPu, crossVec3(e.dPv, <<-rayDir[1], -rayDir[2], -rayDir[3]>>)) :
         e \in {bezierEval(n.cp, n.u, n.v)} })

\* the residual at the point of newtonRefine is below EPS_F
ConvergedAt(n, a) == LengthBelow(Residual(n.cp, a.rayOrigin, a.rayDir, n.u, n.v, n.t), EPS_F)

\* u and v are within the margin of [0, 1] and t is within [tMin, tMax]
WithinDomain(n) ==
  /\ -DomainMargin <= n.u /\ n.u <= FX + DomainMargin
  /\ -DomainMargin <= n.v /\ n.v <= FX + DomainMargin
  /\ n.tMin <= n.t /\ n.t <= n.tMax

\* C20: newtonRefine takes at most MAX_IT steps; it returns true only at a
\* point whose residual is below EPS_F, with u and v within the margin of
\* [0, 1] and t within [rayTMin, min(bestT, rayTMax)]; a point converged
\* outside of that, a singular system and the MAX_IT-th step without
\* convergence all return false, and false leaves the best hit as it is
C20_RefinementBounded ==
  /\ [](at \in {"refine", "refined"} =>
          /\ newton.iter <= MAX_IT
          /\ newton.tMin = args.rayTMin
          /\ newton.tMax = Min2(bestT, args.rayTMax)
          /\ (newton.ret = "true") => (ConvergedAt(newton, args) /\ WithinDomain(newton)))
  /\ [][(at = "refine") =>
          /\ newton'.iter \in {newton.iter, newton.iter + 1}
          /\ (newton'.ret = "running") => (newton'.iter = newton.iter + 1 /\ newton'.iter < MAX_IT)
          /\ (ConvergedAt(newton, args) /\ ~WithinDomain(newton)) => newton'.ret = "false"
          /\ (~ConvergedAt(newton, args) /\ Abs(DeterminantAt(newton, args.rayDir)) < 1) =>
                newton'.ret = "false"
          /\ (newton'.iter = MAX_IT /\ ~(ConvergedAt(newton', args) /\ WithinDomain(newton'))) =>
                newton'.ret = "false"]_vars
  /\ [][(at = "refined" /\ newton.ret = "false") => UNCHANGED <<bestT, bestUV, hasHit>>]_vars

\* newtonRefine has returned true after some steps, at a point short of the
\* far end of its range
C20_Witness ==
  /\ at = "refined"
  /\ newton.ret = "true"
  /\ newton.iter > 1
  /\ newton.t < newton.tMax
  /\ newton.u > FX


\* ------------------------------------------------------------------------
\* Sphere and cylinder kernels (SpecShader)
\* ------------------------------------------------------------------------

\* the azimuth of the reported point measured in the cylinder's own
\* (xdir, ydir) plane, wrapped into [0, 360)
LocalAzimuths(f, t) == WrappedAzimuths(dot(PLocal(f, t), f.yIn), dot(PLocal(f, t), f.xdir))

OnAxis(f, t) == dot(PLocal(f, t), f.yIn) = 0 /\ dot(PLocal(f, t), f.xdir) = 0

ReportedCylinderHit == shaderAt = "done" /\ geometry.kind = "cylinder" /\ reported.hit

\* C21: for a partial cylinder (sweep angle below 360 degrees) no reported hit,
\* lateral or end cap, has an azimuth in the cylinder's local (xdir, ydir)
\* plane, wrapped into [0, 360), that exceeds the sweep angle; with
\* angleDeg = 180 no reported hit has local azimuth in (180, 360)
C21_SweepRejectsOutside ==
  (ReportedCylinderHit /\ geometry.angleDeg < Degrees(360))
    => \E f \in {CylinderFrame(geometry, worldRay)} :
         \/ OnAxis(f, reported.t)
         \/ \A ang \in LocalAzimuths(f, reported.t) : ang <= geometry.angleDeg

\* C21 fails: the half cylinder whose xdir is world +y is hit from world +x at
\* t = 1, a point of local azimuth 270
C21_HitOutsideSweep ==
  /\ ReportedCylinderHit
  /\ geometry = ShadedCylinder(<<0, FX, 0>>, <<-FX, 0, 0>>, 180)
  /\ worldRay = Ray(<<2 * FX, 0, 0>>, <<-FX, 0, 0>>)
  /\ reported.t = FX
  /\ LocalAzimuths(CylinderFrame(geometry, worldRay), reported.t) = {Degrees(270)}
  /\ ShaderAzimuths(CylinderFrame(geometry, worldRay), reported.t) = {Degrees(0)}

\* the roots of |ro + t rd - c|^2 = R^2 for a unit direction, smaller first
SphereRoots(g, r) ==
  LET oc == subtractVec3(r.ro, g.center)
      b == dot(oc, r.rd)
      disc == WideMul(b, b) - (dot(oc, oc) - WideMul(g.radius, g.radius))
  IN IF disc < 0 THEN << >> ELSE << -b - sqrt(disc), -b + sqrt(disc) >>

\* the point ro + t rd lies on the sphere, up to the rounding of the square root
OnSphere(g, r, t) ==
  LET p == subtractVec3(addVec3(r.ro, <<WideMul(r.rd[1], t), WideMul(r.rd[2], t),
                                         WideMul(r.rd[3], t)>>), g.center)
  IN Abs(dot(p, p) - WideMul(g.radius, g.radius)) <= 2

SphereDone == shaderAt = "done" /\ geometry.kind = "sphere"

\* C22: the sphere kernel reports the smaller root of the ray/sphere quadratic
\* when it is at or beyond tMin, otherwise the larger root when that one is,
\* otherwise nothing; the unit sphere at the origin seen from (0,0,5) along
\* (0,0,-1) with tMin = 0.001 is hit at t = 4
C22_NearestRootInRange ==
  SphereDone =>
    \E roots \in {SphereRoots(geometry, worldRay)} :
      /\ reported.hit <=> (roots # << >> /\ roots[2] >= worldRay.nearT)
      /\ reported.hit =>
           /\ reported.t = IF roots[1] >= worldRay.nearT THEN roots[1] ELSE roots[2]
           /\ OnSphere(geometry, worldRay, reported.t)
      /\ (geometry = UnitSphere /\ worldRay = Ray(<<0, 0, 5 * FX>>, <<0, 0, -FX>>))
           => (reported.hit /\ reported.t = 4 * FX)

\* C22 witness: the unit sphere seen from (0,0,5) has been intersected at t = 4,
\* the smaller of its roots 4 and 6
C22_Witness ==
  /\ SphereDone
  /\ geometry = UnitSphere
  /\ worldRay = Ray(<<0, 0, 5 * FX>>, <<0, 0, -FX>>)
  /\ worldRay.nearT = 10
  /\ SphereRoots(geometry, worldRay) = <<4 * FX, 6 * FX>>
  /\ reported = [hit |-> TRUE, t |-> 4 * FX]

\* ------------------------------------------------------------------------
\* Hermite conversion with non-finite input (SpecConvert)
\* ------------------------------------------------------------------------
FiniteVec(v) == \A a \in 1..3 : isFinite(v[a])

CorruptInput ==
  \E f \in PatchFields :
    hermite[f] # << >> /\ \E a \in 1..3 : ~isFinite(hermite[f][a])

\* C23: for every input Hermite patch, including one with NaN or infinite
\* components, all 16 control points and both bounding-box corners returned by
\* the converter have only finite components, and the box contains the points
C23_OutputFinite ==
  conversion.returned =>
    /\ Len(conversion.controlPoints) = 16
    /\ \A n \in 1..16 : FiniteVec(conversion.controlPoints[n])
    /\ FiniteVec(conversion.boundsMin)
    /\ FiniteVec(conversion.boundsMax)
    /\ \A n \in 1..16 : \A a \in 1..3 :
         /\ conversion.boundsMin[a].v <= conversion.controlPoints[n][a].v
         /\ conversion.controlPoints[n][a].v <= conversion.boundsMax[a].v

\* C23 witness: a patch with a NaN and an infinite component has been converted,
\* and the control points the corruption reached came out as 0
C23_Witness ==
  /\ conversion.returned
  /\ hermite.p00 = <<Fin(0), Infinity(-1), NaN>>
  /\ conversion.controlPoints[1] = FinVec(0, 0, 0)
  /\ conversion.controlPoints[6] = FinVec(3, 0, 0)

\* ------------------------------------------------------------------------
\* Repeated packing (SpecRepack)
\* ------------------------------------------------------------------------
SameFallbackArrays(a, b) ==
  /\ a.primitiveCount = b.primitiveCount
  /\ a.counts = b.counts
  /\ a.aabbData = b.aabbData
  /\ a.primitiveRefs = b.primitiveRefs
  /\ a.sphereData = b.sphereData
  /\ a.analyticData = b.analyticData
  /\ a.bezierData = b.bezierData

AllCallsResolved ==
  /\ calls > 0
  /\ pending = << >>
  /\ ~PackPrimitives(currentScenePrimitives).threw

\* C25: once every setScene / set<Kind> call issued on the fallback handle has
\* resolved, the uploaded counts and buffers are those of the stored current
\* scene, whatever order the builds completed in
C25_UploadFollowsCurrentScene ==
  AllCallsResolved =>
    /\ SameFallbackArrays(applied, PackPrimitives(currentScenePrimitives))
    /\ primitiveCountValue = PackPrimitives(currentScenePrimitives).primitiveCount
    /\ currentPrimitiveCounts = PackPrimitives(currentScenePrimitives).counts

\* C25 fails: after setScene of six primitives and then setScene of the empty
\* scene, both resolved, the stored scene is empty and the upload holds six
C25_StaleUpload ==
  /\ AllCallsResolved
  /\ calls = 2
  /\ currentScenePrimitives = EmptyScene
  /\ applied.primitiveCount = 6
  /\ primitiveCountValue = 6
  /\ currentPrimitiveCounts.sphere = 2

\* ------------------------------------------------------------------------
\* Scene replacement on the ray-tracing renderer (SpecRT)
\* ------------------------------------------------------------------------
\* the latest call was setScene and every rebuild has run to its end; curr then
\* holds the instance lists of the scene passed in
SetSceneResolved ==
  /\ rebuildCount > 0
  /\ rebuilds = << >>
  /\ curr.version = currObject

\* the per-kind counts of the scene metadata (sphere, cylinder, circle,
\* ellipse, cone, line, torus, bezier)
PublishedCounts(data) ==
  <<data.m1[2], data.m1[4], data.m2[2], data.m0[4], data.m3[2], data.m3[4], data.m0[2],
    data.m4[2]>>

ListLengths(c) ==
  <<Len(c.spheres), Len(c.cylinders), Len(c.circles), Len(c.ellipses), Len(c.cones),
    Len(c.lines), Len(c.tori), Len(c.bezierPatches)>>

\* C26: after setScene(S) has resolved on the ray-tracing renderer, the per-kind
\* counts published in the scene metadata equal the lengths of S's per-kind
\* instance lists, a kind that is empty in S having count 0
C26_CountsFollowScene ==
  SetSceneResolved => PublishedCounts(sceneMetaBuf.data) = ListLengths(curr)

\* C26 fails: setScene of a scene holding one sphere and nothing else has
\* resolved under the default overrides, and the metadata publishes one
\* cylinder, one circle and one cone
C26_PhantomInstances ==
  /\ SetSceneResolved
  /\ rebuildCount = 1
  /\ overrides = [spheresOnly |-> FALSE, includePlane |-> TRUE]
  /\ ListLengths(curr) = <<1, 0, 0, 0, 0, 0, 0, 0>>
  /\ sceneMetaBuf.tag = Tag(1, 1)
  /\ sceneMetaBuf.data.m1[4] = 1
  /\ sceneMetaBuf.data.m2[2] = 1
  /\ sceneMetaBuf.data.m3[2] = 1

\* the instances each renderer draws from the scene it holds, kind by kind:
\* the fallback renderer its lists (pipeline.ts 965-1130), the ray-tracing
\* renderer what buildAnalyticPrimitivesTLAS packs
FallbackShown(scene) ==
  <<Each(scene.spheres, SphereOf), Each(scene.cylinders, CylinderOf),
    Each(scene.circles, CircleOf), Each(scene.ellipses, EllipseOf),
    Each(scene.cones, ConeOf), Each(scene.lines, LineOf), Each(scene.tori, TorusOf),
    scene.bezierPatches>>

RayTracingShown(p) ==
  <<ListOrSingle(p.spheres, p.sphere), ListOrSingle(p.cylinders, p.cylinder),
    ListOrSingle(p.circles, p.circle),
    ListOrSingleIf(p.ellipses, p.ellipse, p.ellipse.rx # 0 /\ p.ellipse.ry # 0),
    ListOrSingle(p.cones, p.cone),
    ListOrSingleIf(p.lines, p.line, p.line.radius > 0),
    ListOrSingleIf(p.tori, p.torus, p.torus.majorR # 0 /\ p.torus.minorR # 0),
    p.bezierPatches>>

\* C27: through the shared handle, once every setScene, set<Kind> and
\* switchActive call has resolved, the two renderers draw the same instances of
\* every kind, so switching the active renderer changes nothing displayed
C27_RenderersHoldSameScene == FallbackShown(held.fallback) = RayTracingShown(held.raytracing)

\* setScene with every kind present, then setSpheres while the ray-tracing
\* renderer is active, then switchActive('fallback'): the fallback renderer
\* still draws the two spheres of setScene, the ray-tracing renderer the three
\* of setSpheres
C27_SetSpheresReachedOneRenderer ==
  /\ current = "fallback"
  /\ held.fallback.spheres = SpheresN(2)
  /\ held.raytracing.spheres = SpheresN(3)
  /\ Len(held.raytracing.cylinders) = 1
  /\ Len(held.fallback.cylinders) = 1

\* the camera pose a renderer will use for its next frame: the fallback
\* renderer's uniform holds position and basis (pipeline.ts 749-757), the
\* ray-tracing renderer's camera buffer position, look-at and up (scene.ts 510-517)
FallbackPoseUsed(c) ==
  <<c.uniform.position, c.uniform.forward, c.uniform.right, c.uniform.up>>

RayTracingPoseUsed(b) == Pose(b.data.pos, b.data.look, b.data.up)

\* C28: on both renderers the pose most recently given to updateCamera is the
\* one in use, whatever setCameraFovY and setCameraNearFar calls came after it
C28_ProjectionSettersKeepPose ==
  /\ requested.fallback # << >> =>
       FallbackPoseUsed(fallbackCamera)
         = FallbackPoseUsed(updateCameraOrientation(fallbackCamera, requested.fallback))
  /\ requested.raytracing # << >> =>
       RayTracingPoseUsed(cameraBuf) = requested.raytracing

\* updateCamera([3,0,4], [0,0,0], [0,1,0]) then setCameraFovY(45) on the
\* ray-tracing renderer: the new field of view is written together with the
\* start-up pose [0,0,3], [0,0,0], [0,1,0]
C28_FovResetsPose ==
  /\ requested.raytracing = Pose(<<3 * FX, 0, 4 * FX>>, <<0, 0, 0>>, <<0, FX, 0>>)
  /\ cameraBuf.data.fov = 45
  /\ cameraBuf.data.near = 1
  /\ RayTracingPoseUsed(cameraBuf) = StartPose
  /\ requested.fallback = << >>

SubmittedAfterStop(renderer) ==
  { i \in 1..Len(gpuWork[renderer]) : gpuWork[renderer][i].afterStop }

\* C29: once stop() has been called, neither a render() call nor an
\* animation-loop callback submits GPU work, on either renderer
C29_NoSubmitAfterStop ==
  SubmittedAfterStop("fallback") = {} /\ SubmittedAfterStop("raytracing") = {}

\* stop(), then render() with the ray-tracing renderer active: the command
\* buffer is submitted all the same
C29_RenderAfterStopSubmits ==
  /\ stopped
  /\ ~rafId
  /\ current = "raytracing"
  /\ gpuWork.raytracing = <<[by |-> "render", afterStop |-> TRUE]>>
  /\ gpuWork.fallback = << >>

\* what convertWebRtxBlasNodesToFallback returned in the build that has just
\* settled, when the build called it with primitives to pack and it did not throw
ReturnedBlas == convertWebRtxBlasNodesToFallback(webRtxBlas, acc.primitiveCount)

ConversionReturned ==
  /\ webRtxBlas.outcome # "none"
  /\ ~webRtxBlas.throws
  /\ webRtxBlas.nodeCount > 0 /\ webRtxBlas.byteLength > 0
  /\ acc.primitiveCount > 0
  /\ ~ReturnedBlas.threw

LinkWithin(link, nodeCount) == link = BVH_INVALID_INDEX \/ InRange(link, nodeCount)

\* C30: when the conversion returns normally for primitiveCount > 0, both links
\* of every output node are the invalid-index sentinel or below nodeCount, and
\* every leaf's primitive index is below primitiveCount
C30_LinksAndLeavesInRange ==
  ConversionReturned =>
    \A i \in 1..ReturnedBlas.nodeCount :
      /\ LinkWithin(ReturnedBlas.nodes[i].left, ReturnedBlas.nodeCount)
      /\ LinkWithin(ReturnedBlas.nodes[i].right, ReturnedBlas.nodeCount)
      /\ ReturnedBlas.nodes[i].leaf = 1 =>
           InRange(ReturnedBlas.nodes[i].primitiveIndex, acc.primitiveCount)

\* the builder delivered a root whose entry link points past the last node and
\* a leaf whose exit link equals nodeCount: the conversion returned, wrote the
\* sentinel in place of both and copied the next leaf's link
C30_Witness ==
  /\ ConversionReturned
  /\ acc.primitiveCount >= 2
  /\ webRtxBlas.nodes[1].entry >= webRtxBlas.nodeCount
  /\ ReturnedBlas.nodes[1].left = BVH_INVALID_INDEX
  /\ ReturnedBlas.nodes[2].leaf = 1
  /\ webRtxBlas.nodes[2].exit = webRtxBlas.nodeCount
  /\ ReturnedBlas.nodes[2].right = BVH_INVALID_INDEX
  /\ ReturnedBlas.nodes[3].right = webRtxBlas.nodes[3].exit
====
